---- MODULE Spec2Model ----
(***************************************************************************)
(* Governance / timelock proposal lifecycle of the solana-program-library  *)
(* governance program: the proposal state machine, the vote tally with its *)
(* tipping rule, the signatory / admin permission guard and the queue of   *)
(* delayed transactions.  Every instruction is one atomic step; a failing  *)
(* instruction is rolled back by the ledger and leaves only its result.    *)
(***************************************************************************)
EXTENDS Integers, Sequences, FiniteSets, TLC

(***************************************************************************)
(* IEEE-754 binary64 arithmetic, round-to-nearest-even, on non-negative    *)
(* finite values.  process_vote computes the tipping percentage in f64     *)
(* (process_vote.rs:125-127); a mantissa has 53 bits and is kept as a      *)
(* sequence of bits, most significant first.  A value is either zero or    *)
(* [m, e] with m a 53-bit sequence starting with 1, standing for m * 2^e.  *)
(***************************************************************************)
MantissaBits == 53

F64Zero == [zero |-> TRUE, m |-> <<>>, e |-> 0]

RECURSIVE BitsOfNat(_)
BitsOfNat(n) == IF n = 0 THEN <<>> ELSE Append(BitsOfNat(n \div 2), n % 2)

RECURSIVE NatOfBits(_)
NatOfBits(b) ==
  IF Len(b) = 0 THEN 0
  ELSE 2 * NatOfBits(SubSeq(b, 1, Len(b) - 1)) + b[Len(b)]

Zeros(n) == SubSeq([i \in 1..n |-> 0], 1, n)

\* The sequence without its leading zeros (empty when it is all zeros)
StripLeadingZeros(b) ==
  IF \A i \in 1..Len(b) : b[i] = 0 THEN <<>>
  ELSE LET k == CHOOSE i \in 1..Len(b) : b[i] = 1 /\ \A j \in 1..(i - 1) : b[j] = 0
       IN  SubSeq(b, k, Len(b))

IsZeroBits(b) == \A i \in 1..Len(b) : b[i] = 0

PadLeft(b, n) == IF Len(b) >= n THEN b ELSE Zeros(n - Len(b)) \o b

\* a >= b for two bit sequences of the same length
GeBitsEq(a, b) ==
  \/ \A i \in 1..Len(a) : a[i] = b[i]
  \/ \E i \in 1..Len(a) : a[i] > b[i] /\ \A j \in 1..(i - 1) : a[j] = b[j]

GeBits(a, b) ==
  LET n == IF Len(a) > Len(b) THEN Len(a) ELSE Len(b)
  IN  GeBitsEq(PadLeft(a, n), PadLeft(b, n))

\* a + b + carry for two bit sequences of the same length n; the result has
\* n + 1 bits.  The carry into position i (1 is the most significant) comes
\* from the nearest lower position that generates one, through positions that
\* propagate it; the carry-in enters below position n.
AddBitsEq(a, b, carry) ==
  LET n == Len(a)
      gen(j)  == IF j = n + 1 THEN carry = 1 ELSE a[j] + b[j] = 2
      prop(j) == a[j] + b[j] = 1
      cin(i)  == IF \E j \in (i + 1)..(n + 1) :
                      gen(j) /\ \A k \in (i + 1)..(j - 1) : prop(k)
                 THEN 1 ELSE 0
      sum == [i \in 1..(n + 1) |->
                IF i = 1 THEN cin(0) ELSE (a[i - 1] + b[i - 1] + cin(i - 1)) % 2]
  IN  SubSeq(sum, 1, n + 1)

AddBits(a, b) ==
  LET n == IF Len(a) > Len(b) THEN Len(a) ELSE Len(b)
  IN  AddBitsEq(PadLeft(a, n), PadLeft(b, n), 0)

\* a - b for a >= b, same length: a + ~b + 1 without the carry out
SubBits(a, b) ==
  LET n == IF Len(a) > Len(b) THEN Len(a) ELSE Len(b)
      pb == PadLeft(b, n)
      nb == SubSeq([i \in 1..n |-> 1 - pb[i]], 1, n)
  IN  Tail(AddBitsEq(PadLeft(a, n), nb, 1))

\* The exact value bits * 2^e (plus a non-zero tail below the last bit when
\* sticky) rounded to 53 bits, ties to even.  bits starts with 1.
F64Round(bits, e, sticky) ==
  LET L == Len(bits)
  IN  IF L <= MantissaBits
      THEN [zero |-> FALSE, m |-> bits \o Zeros(MantissaBits - L), e |-> e - (MantissaBits - L)]
      ELSE LET keep == SubSeq(bits, 1, MantissaBits)
               half == bits[MantissaBits + 1]
               rest == sticky \/ \E i \in (MantissaBits + 2)..L : bits[i] = 1
               up   == half = 1 /\ (rest \/ keep[MantissaBits] = 1)
               inc  == StripLeadingZeros(AddBits(keep, <<1>>))
           IN  IF ~up THEN [zero |-> FALSE, m |-> keep, e |-> e + (L - MantissaBits)]
               ELSE IF Len(inc) > MantissaBits
               THEN [zero |-> FALSE, m |-> SubSeq(inc, 1, MantissaBits),
                     e |-> e + (L - MantissaBits) + 1]
               ELSE [zero |-> FALSE, m |-> inc, e |-> e + (L - MantissaBits)]

\* `n as f64`
F64FromU64(n) == IF n = 0 THEN F64Zero ELSE F64Round(BitsOfNat(n), 0, FALSE)

\* The sequence without its trailing zeros
StripTrailingZeros(b) ==
  IF \A i \in 1..Len(b) : b[i] = 0 THEN <<>>
  ELSE LET k == CHOOSE i \in 1..Len(b) : b[i] = 1 /\ \A j \in (i + 1)..Len(b) : b[j] = 0
       IN  SubSeq(b, 1, k)

\* 2^i modulo d, by repeated squaring
RECURSIVE Pow2Mod(_, _)
Pow2Mod(i, d) ==
  IF i = 0 THEN 1 % d
  ELSE LET h == Pow2Mod(i \div 2, d)
       IN  (h * h * (IF i % 2 = 1 THEN 2 ELSE 1)) % d

\* Number of binary places of a quotient that are worked out before rounding:
\* the 53 kept bits, the rounding bit and the leading zeros of a quotient of
\* two integers below 2^10.
QuotientBits == MantissaBits + 13

\* The binary expansion of a / b for integers a >= 0, b > 0: the bits of the
\* integer part, then QuotientBits binary places.  Place i of r / b (r < b) is
\* floor(2 * ((r * 2^(i-1)) mod b) / b).
DivBits(a, b) ==
  LET r == a % b
      places == [i \in 1..QuotientBits |-> (2 * ((r * Pow2Mod(i - 1, b)) % b)) \div b]
  IN  [q |-> BitsOfNat(a \div b) \o SubSeq(places, 1, QuotientBits),
       r |-> (r * Pow2Mod(QuotientBits, b)) % b]

\* x / y for y > 0, the exact quotient rounded once.  Both operands are u64
\* token amounts cast to f64, so their significant bits are a small integer.
F64Div(x, y) ==
  IF x.zero THEN F64Zero
  ELSE LET xs == StripTrailingZeros(x.m)
           ys == StripTrailingZeros(y.m)
           xe == x.e + (MantissaBits - Len(xs))
           ye == y.e + (MantissaBits - Len(ys))
           d  == DivBits(NatOfBits(xs), NatOfBits(ys))
       IN  F64Round(StripLeadingZeros(d.q), xe - ye - QuotientBits, d.r # 0)

\* x - y for x >= y >= 0
F64Sub(x, y) ==
  IF y.zero THEN x
  ELSE LET e  == IF x.e < y.e THEN x.e ELSE y.e
           xa == x.m \o Zeros(x.e - e)
           ya == y.m \o Zeros(y.e - e)
           d  == StripLeadingZeros(SubBits(xa, ya))
       IN  IF Len(d) = 0 THEN F64Zero ELSE F64Round(d, e, FALSE)

\* Schoolbook product of two bit sequences
RECURSIVE MulBits(_, _)
MulBits(a, b) ==
  IF Len(b) = 0 THEN <<>>
  ELSE LET hi == Append(MulBits(a, SubSeq(b, 1, Len(b) - 1)), 0)
       IN  IF b[Len(b)] = 1 THEN AddBits(hi, a) ELSE hi

\* x * y
F64Mul(x, y) ==
  IF x.zero \/ y.zero THEN F64Zero
  ELSE LET ys == StripTrailingZeros(y.m)
       IN  F64Round(StripLeadingZeros(MulBits(x.m, ys)),
                    x.e + y.e + (MantissaBits - Len(ys)), FALSE)

\* x >= y
F64Ge(x, y) ==
  IF y.zero THEN TRUE
  ELSE IF x.zero THEN FALSE
  ELSE IF x.e # y.e THEN x.e > y.e
  ELSE GeBitsEq(x.m, y.m)

\* (1.0 - remaining as f64 / total as f64) * 100.0      process_vote.rs:126
CastPercent(remaining, total) ==
  F64Mul(F64Sub(F64FromU64(1), F64Div(F64FromU64(remaining), F64FromU64(total))),
         F64FromU64(100))

(***************************************************************************)
(* Program constants                                                       *)
(***************************************************************************)
MAX_TRANSACTIONS == 5
INSTRUCTION_LIMIT == 450

(***************************************************************************)
(* Bounds of the model                                                     *)
(***************************************************************************)
\* Last slot the clock reaches
MaxSlot == 2
\* governance.time_limit: slots a vote may stay open
TimeLimit == 1
\* governance.minimum_slot_waiting_period: least delay of a queued transaction
MinHoldUp == 1
\* Largest delay_slots a caller passes
MaxDelay == 1
\* Cap on the signatory mint supply (AddSignatory is unbounded in the program)
MaxSignatoryTokens == 2
\* Source tokens of holders who never deposit
AbstainerTokens == 2
\* Largest amount a caller passes to Deposit, Withdraw and Vote
MaxAmount == 3

\* Governing tokens minted to the owners' accounts, for each governing mint
MaxGoverningTokens == 2
\* Collateral tokens deposited for an obligation
MaxCollateral == 2
\* Calls made on one obligation
MaxCalls == 2

\* vote_threshold values a governance is created with (unvalidated u8)
VoteThresholds == {0, 20, 60}

Parties == {1, 2}
Voters == {1, 2}
TxnAccounts == {1, 2}
\* Pubkey::new_from_array([0; 32]), the empty slot of the transaction array
ZeroKey == 0
Positions == {0, MAX_TRANSACTIONS - 1, MAX_TRANSACTIONS}
EndIndexes == {INSTRUCTION_LIMIT - 1, INSTRUCTION_LIMIT}
Delays == 0..MaxDelay

\* Source tokens the two voters start with
SourceTokens == <<2, 1>>
SourceMintSupply == SourceTokens[1] + SourceTokens[2] + AbstainerTokens
Amounts == 1..MaxAmount
Votes == [kind : {"Yes", "No"}, amount : Amounts]

\* The realm's mints: process_create_realm stores the governance mint and,
\* when one is passed, the council mint
Realm == [governance_mint |-> "Governance", council_mint |-> "Council"]
GoverningMints == {Realm.governance_mint, Realm.council_mint}
\* The mint of a token account that belongs to neither
OtherMint == "Other"
TokenOwners == {1, 2}
\* The addresses passed to SetVoteAuthority: an owner and a delegate
VoteAuthorities == {1, 3}
\* The token accounts a caller can pass as the holding account: the realm's
\* holding account of the mint, another token account of the same mint, or a
\* token account of another mint
HoldingAccounts == {"RealmHolding", "OwnAccount", "OtherMintAccount"}

Statuses == {"Draft", "Voting", "Executing", "Completed", "Deleted", "Defeated", "Cancelled"}

Ok == "Ok"

\* The result of a handler: the error of the first check that fails, in the
\* order the handler makes them (the `?` early returns).
FirstError(check, rest) == IF check # Ok THEN check ELSE rest

VARIABLES
  governance,         \* Governance: vote_threshold, minimum_slot_waiting_period, time_limit, mints
  proposal,           \* Proposal: the accounts and mints the proposal was created with
  slot,               \* Clock sysvar
  proposal_state,     \* ProposalState
  transaction_accts,  \* CustomSingleSignerTransaction accounts, by key
  signatory_acct,     \* signatory token accounts, by party
  admin_acct,         \* admin token accounts, by party
  source_acct,        \* the voters' source (governance) token accounts
  voting_acct,        \* the voters' voting token accounts
  yes_acct,           \* the voters' yes-voting token accounts
  no_acct,            \* the voters' no-voting token accounts
  holding,            \* source holding account of the proposal
  dump,               \* yes / no voting dump accounts
  mint_supply,        \* supply of the signatory, voting, yes, no and source mints
  voting_record,      \* GovernanceVoteRecord, by voter
  governing_source,   \* the owners' token accounts of the realm's governing mints
  realm_holding,      \* the realm's holding account of each governing mint
  stray_acct,         \* other token accounts of each governing mint
  voter_record,       \* VoterRecord, by governing mint and token owner
  obligation,         \* Obligation (token lending), the struct a call works on
  obligation_result,  \* what the last call on the obligation returned
  obligation_calls,   \* calls made on the obligation
  in_flight           \* the instruction that has written and not yet returned, if any

\* The accounts of the realm's deposit ledger
realm_vars == <<governing_source, realm_holding, stray_acct, voter_record>>

\* The obligation and the record of the calls made on it
lending_vars == <<obligation, obligation_result, obligation_calls>>

vars == <<governance, proposal, slot, proposal_state, transaction_accts, signatory_acct,
          admin_acct, source_acct, voting_acct, yes_acct, no_acct, holding, dump,
          mint_supply, voting_record, realm_vars, lending_vars, in_flight>>

token_vars == <<source_acct, voting_acct, yes_acct, no_acct, holding, dump, voting_record>>

(***************************************************************************)
(* Faulty variants of some definitions below: each makes one plausible     *)
(* mistake.  A property that depends on a definition must fail when the    *)
(* definition is replaced by its variant.                                  *)
(***************************************************************************)
\* Voting is not closed once the vote has tipped
AssertVotingOrExecuting(state) ==
  IF state.status # "Voting" /\ state.status # "Executing"
  THEN "InvalidTimelockSetStateError" ELSE Ok

\* Only a draft is refused
AssertNotDraft(state) ==
  IF state.status = "Draft" THEN "InvalidTimelockSetStateError" ELSE Ok

\* Any proposal whose vote has ended may execute
AssertVoteEnded(state) ==
  IF state.status = "Draft" \/ state.status = "Voting"
  THEN "InvalidTimelockSetStateError" ELSE Ok

\* The guard of CancelProposal used where a draft is required
AssertEditable(state) ==
  IF state.status = "Voting" \/ state.status = "Executing"
  THEN "InvalidTimelockSetStateError" ELSE Ok

\* The current vote is left out of the tally
NowRemainingBeforeVote(source_mint_supply, yes_vote_amount, yes_mint_supply) ==
  source_mint_supply - yes_mint_supply

\* The undecided share, not the cast share, is compared with the threshold
TippedOnUndecidedShare(now_remaining_in_no_column, total_ever_existed, vote_threshold) ==
  \/ now_remaining_in_no_column = 0
  \/ now_remaining_in_no_column * 100 >= vote_threshold * total_ever_existed

\* The deadline slot itself already counts as too long
TooLongInclusive(elapsed, time_limit) == elapsed >= time_limit

\* The no votes already cast are taken out of the undecided quantity
NowRemainingLessNoSupply(source_mint_supply, yes_vote_amount, yes_mint_supply) ==
  source_mint_supply - yes_vote_amount - yes_mint_supply - mint_supply.no

\* A no vote is counted as a yes vote as well
AmountOfAnyVote(vote) == vote.amount

\* The token program does not look at the balance
SplTokenDebitUnchecked(balance, amount) == Ok

\* The no amount of a vote is lost
NoVoteDropped(vote) == 0

\* What an instruction wrote before it failed stays in the accounts
KeepWrites(result, before, written) == written

\* Only a proposal that is executing is protected from cancellation
AssertNotExecutingOnly(state) ==
  IF state.status = "Executing" THEN "InvalidTimelockSetStateError" ELSE Ok

\* The proposal can still be edited while it is voted on
AssertDraftOrVoting(state) ==
  IF state.status # "Draft" /\ state.status # "Voting"
  THEN "InvalidTimelockSetStateError" ELSE Ok

\* The first eligible slot is refused
AssertEligibleLate(current_slot, voting_ended_at, delay_slots) ==
  IF current_slot <= voting_ended_at + delay_slots THEN "TooEarlyToExecute" ELSE Ok

(***************************************************************************)
(* Guards (timelock utils.rs)                                              *)
(***************************************************************************)
AssertNotInVotingOrExecuting(state) ==
  IF state.status = "Voting" \/ state.status = "Executing"
  THEN "InvalidTimelockSetStateError" ELSE Ok

AssertExecuting(state) ==
  IF state.status # "Executing" THEN "InvalidTimelockSetStateError" ELSE Ok

AssertVoting(state) ==
  IF state.status # "Voting" THEN "InvalidTimelockSetStateError" ELSE Ok

AssertDraft(state) ==
  IF state.status # "Draft" THEN "InvalidTimelockSetStateError" ELSE Ok

AssertTxnInState(state, key) ==
  IF \E n \in 0..(MAX_TRANSACTIONS - 1) : state.transactions[n] = key
  THEN Ok ELSE "TimelockTransactionNotFoundError"

AssertAccountEquiv(matches) ==
  IF ~matches THEN "AccountsShouldMatch" ELSE Ok

AssertUninitialized(account) ==
  IF account.initialized THEN "AlreadyInitialized" ELSE Ok

\* spl_token transfer / burn of `amount` out of an account holding `balance`
SplTokenDebit(balance, amount) ==
  IF amount > balance THEN "TokenInsufficientFunds" ELSE Ok

\* spl_token_transfer and spl_token_burn of utils.rs: whatever the token
\* program returns is replaced by the program's own error
SplTokenTransfer(balance, amount) ==
  IF SplTokenDebit(balance, amount) # Ok THEN "TokenTransferFailed" ELSE Ok

SplTokenBurn(balance, amount) ==
  IF SplTokenDebit(balance, amount) # Ok THEN "TokenBurnFailed" ELSE Ok

\* What an account passed as a token account holds: an initialized token
\* account, one that is not initialized, or data that is no token account
AccountKinds == {"Initialized", "Uninitialized", "InvalidData"}

\* assert_initialized: unpack_unchecked fails on data of the wrong length,
\* then the initialized flag is looked at
AssertInitialized(account) ==
  IF account = "InvalidData" THEN "InvalidAccountData"
  ELSE IF account # "Initialized" THEN "Uninitialized"
  ELSE Ok

\* Faulty variant: the token stays in the validation account
PermissionCheckKeepsToken(perm_balance, validation_balance, perm_account, validation_account, mint_ok, transfer_authority_ok, authority_ok, validation_owner_ok) ==
  IF AssertInitialized(perm_account) # Ok
  THEN [result |-> AssertInitialized(perm_account), perm |-> perm_balance,
        validation |-> validation_balance]
  ELSE IF AssertInitialized(validation_account) # Ok
  THEN [result |-> AssertInitialized(validation_account), perm |-> perm_balance,
        validation |-> validation_balance]
  ELSE IF ~authority_ok
  THEN [result |-> "InvalidTimelockAuthority", perm |-> perm_balance,
        validation |-> validation_balance]
  ELSE IF ~mint_ok \/ ~transfer_authority_ok \/ perm_balance < 1
  THEN [result |-> "TokenTransferFailed", perm |-> perm_balance,
        validation |-> validation_balance]
  ELSE [result |-> Ok, perm |-> perm_balance - 1, validation |-> validation_balance + 1]

\* assert_is_permissioned: the holder's account and the validation account
\* must be initialized token accounts; the authority passed must be the
\* address derived from the proposal; then one token goes from the holder's
\* account to the validation account, moved by the transfer authority, and
\* comes back, moved by the derived authority.  The token program refuses the
\* first transfer when the two accounts are not of the same mint, when the
\* transfer authority may not move the holder's tokens or when the holder has
\* none, and the second when the derived authority does not own the
\* validation account.  The record holds the result and the balances the
\* transfers have written on return.
PermissionCheck(perm_balance, validation_balance, perm_account, validation_account, mint_ok, transfer_authority_ok, authority_ok, validation_owner_ok) ==
  IF AssertInitialized(perm_account) # Ok
  THEN [result |-> AssertInitialized(perm_account), perm |-> perm_balance,
        validation |-> validation_balance]
  ELSE IF AssertInitialized(validation_account) # Ok
  THEN [result |-> AssertInitialized(validation_account), perm |-> perm_balance,
        validation |-> validation_balance]
  ELSE IF ~authority_ok
  THEN [result |-> "InvalidTimelockAuthority", perm |-> perm_balance,
        validation |-> validation_balance]
  ELSE IF ~mint_ok \/ ~transfer_authority_ok
            \/ SplTokenTransfer(perm_balance, 1) # Ok
  THEN [result |-> "TokenTransferFailed", perm |-> perm_balance,
        validation |-> validation_balance]
  ELSE IF ~validation_owner_ok \/ SplTokenTransfer(validation_balance + 1, 1) # Ok
  THEN [result |-> "TokenTransferFailed", perm |-> perm_balance - 1,
        validation |-> validation_balance + 1]
  ELSE [result |-> Ok, perm |-> (perm_balance - 1) + 1,
        validation |-> (validation_balance + 1) - 1]

\* The guard as the handlers of a proposal call it: with the caller's own
\* token account and transfer authority and the proposal's own validation
\* account, an initialized token account that is empty between instructions.
AssertIsPermissioned(balance, authority_ok) ==
  PermissionCheck(balance, 0, "Initialized", "Initialized", TRUE, TRUE, authority_ok,
                  TRUE).result

\* The program derived address check of the governance handlers
AssertGovernanceAuthority(authority_ok) ==
  IF ~authority_ok THEN "InvalidGovernanceAuthority" ELSE Ok

\* u64::checked_sub / checked_add within the model's range
CheckedSub(a, b) == IF b > a THEN "NumericalOverflow" ELSE Ok

(***************************************************************************)
(* Token lending: fixed point arithmetic of the obligation.  A Decimal is  *)
(* an unsigned 192 bit integer counting units of 10^-18 (WAD = 10^18); a   *)
(* Rate is the same in 128 bits.  The numbers are far beyond the integers  *)
(* of the checker, so they are kept as sequences of limbs of three decimal *)
(* digits, least significant first, without leading zero limbs (zero is    *)
(* the empty sequence).  WAD is one followed by six zero limbs.            *)
(***************************************************************************)
Limb == 1000
WadLimbs == 6

RECURSIVE BigNorm(_)
BigNorm(a) ==
  IF a = <<>> THEN <<>>
  ELSE IF a[Len(a)] = 0 THEN BigNorm(SubSeq(a, 1, Len(a) - 1)) ELSE a

RECURSIVE BigFromNat(_)
BigFromNat(n) == IF n = 0 THEN <<>> ELSE <<n % Limb>> \o BigFromNat(n \div Limb)

BigLimb(a, i) == IF i <= Len(a) THEN a[i] ELSE 0

RECURSIVE BigLessFrom(_, _, _)
BigLessFrom(a, b, i) ==
  IF i = 0 THEN FALSE
  ELSE IF a[i] # b[i] THEN a[i] < b[i] ELSE BigLessFrom(a, b, i - 1)

BigLess(a, b) == IF Len(a) # Len(b) THEN Len(a) < Len(b) ELSE BigLessFrom(a, b, Len(a))

RECURSIVE BigAddFrom(_, _, _, _)
BigAddFrom(a, b, i, carry) ==
  IF i > Len(a) /\ i > Len(b) THEN BigFromNat(carry)
  ELSE LET sum == BigLimb(a, i) + BigLimb(b, i) + carry
       IN  <<sum % Limb>> \o BigAddFrom(a, b, i + 1, sum \div Limb)

BigAdd(a, b) == BigAddFrom(a, b, 1, 0)

\* a - b for b <= a
RECURSIVE BigSubFrom(_, _, _, _)
BigSubFrom(a, b, i, borrow) ==
  IF i > Len(a) THEN <<>>
  ELSE LET diff == a[i] - BigLimb(b, i) - borrow
       IN  <<IF diff < 0 THEN diff + Limb ELSE diff>>
             \o BigSubFrom(a, b, i + 1, IF diff < 0 THEN 1 ELSE 0)

BigSub(a, b) == BigNorm(BigSubFrom(a, b, 1, 0))

\* a * k for one limb k
RECURSIVE BigMulLimbFrom(_, _, _, _)
BigMulLimbFrom(a, k, i, carry) ==
  IF i > Len(a) THEN BigFromNat(carry)
  ELSE LET product == a[i] * k + carry
       IN  <<product % Limb>> \o BigMulLimbFrom(a, k, i + 1, product \div Limb)

BigMulLimb(a, k) == BigNorm(BigMulLimbFrom(a, k, 1, 0))

\* a * Limb^n
BigShift(a, n) == IF a = <<>> \/ n = 0 THEN a ELSE [i \in 1..n |-> 0] \o a

\* a \div Limb^n
BigDropLow(a, n) == IF Len(a) <= n THEN <<>> ELSE SubSeq(a, n + 1, Len(a))

RECURSIVE BigMulFrom(_, _, _)
BigMulFrom(a, b, i) ==
  IF i > Len(b) THEN <<>>
  ELSE BigAdd(BigShift(BigMulLimb(a, b[i]), i - 1), BigMulFrom(a, b, i + 1))

BigMul(a, b) == BigMulFrom(a, b, 1)

\* The largest limb d in lo..hi with b * d <= cur (b * lo <= cur is given)
RECURSIVE BigQuotientLimb(_, _, _, _)
BigQuotientLimb(cur, b, lo, hi) ==
  IF lo = hi THEN lo
  ELSE LET mid == (lo + hi + 1) \div 2
       IN  IF BigLess(cur, BigMulLimb(b, mid))
           THEN BigQuotientLimb(cur, b, lo, mid - 1)
           ELSE BigQuotientLimb(cur, b, mid, hi)

\* Long division, from the most significant limb of a down; b is not zero
RECURSIVE BigDivFrom(_, _, _, _)
BigDivFrom(a, b, i, rem) ==
  IF i = 0 THEN <<>>
  ELSE LET cur == BigNorm(<<a[i]>> \o rem)
           d   == BigQuotientLimb(cur, b, 0, Limb - 1)
       IN  IF d = 0
           THEN BigDivFrom(a, b, i - 1, cur) \o <<0>>
           ELSE BigDivFrom(a, b, i - 1, BigSub(cur, BigMulLimb(b, d))) \o <<d>>

BigDiv(a, b) == BigNorm(BigDivFrom(a, b, Len(a), <<>>))

\* 2^192, 2^128 and 2^64 - 1
U192Limit ==
  <<896, 512, 34, 464, 444, 355, 102, 416, 666, 207, 423, 789, 835, 763, 680, 386, 735, 101, 277, 6>>
U128Limit == <<456, 211, 768, 431, 607, 374, 463, 463, 938, 920, 366, 282, 340>>
U64Max == <<615, 551, 709, 73, 744, 446, 18>>

MathOverflow == "MathOverflow"

\* Decimal::from(u64) and Decimal::from_scaled_val
DecimalFrom(tokens) == BigShift(tokens, WadLimbs)

\* The Decimal whole + frac * 10^-18, for small whole and frac
Dec(whole, frac) == BigAdd(DecimalFrom(BigFromNat(whole)), BigFromNat(frac))

\* Decimal::try_div(Decimal): self * WAD / rhs, both steps checked in U192
DecimalTryDiv(a, b) ==
  IF ~BigLess(BigShift(a, WadLimbs), U192Limit) \/ b = <<>>
  THEN [result |-> MathOverflow, value |-> <<>>]
  ELSE [result |-> Ok, value |-> BigDiv(BigShift(a, WadLimbs), b)]

\* Rate::try_from(Decimal): the scaled value must fit 128 bits
RateTryFrom(d) ==
  IF ~BigLess(d, U128Limit) THEN [result |-> MathOverflow, value |-> <<>>]
  ELSE [result |-> Ok, value |-> d]

\* Decimal::try_mul(Rate): self * rate / WAD, the product checked in U192
DecimalTryMul(a, rate) ==
  IF ~BigLess(BigMul(a, rate), U192Limit) THEN [result |-> MathOverflow, value |-> <<>>]
  ELSE [result |-> Ok, value |-> BigDropLow(BigMul(a, rate), WadLimbs)]

\* Decimal::try_sub
DecimalTrySub(a, b) ==
  IF BigLess(a, b) THEN [result |-> MathOverflow, value |-> <<>>]
  ELSE [result |-> Ok, value |-> BigSub(a, b)]

\* Decimal::try_div(u64) and Decimal::try_mul(u64): the scaled value divided
\* or multiplied by the integer, checked in U192
DecimalTryDivU64(a, n) ==
  IF n = <<>> THEN [result |-> MathOverflow, value |-> <<>>]
  ELSE [result |-> Ok, value |-> BigDiv(a, n)]

DecimalTryMulU64(a, n) ==
  IF ~BigLess(BigMul(a, n), U192Limit) THEN [result |-> MathOverflow, value |-> <<>>]
  ELSE [result |-> Ok, value |-> BigMul(a, n)]

\* Decimal::try_floor_u64: the scaled value over WAD must fit 64 bits
DecimalTryFloorU64(d) ==
  IF BigLess(U64Max, BigDropLow(d, WadLimbs)) THEN [result |-> MathOverflow, value |-> <<>>]
  ELSE [result |-> Ok, value |-> BigDropLow(d, WadLimbs)]

\* Decimal::try_ceil_u64: WAD - 1 is added first, checked in U192
DecimalTryCeilU64(d) ==
  LET ceil_val == BigAdd([i \in 1..WadLimbs |-> Limb - 1], d)
  IN  IF ~BigLess(ceil_val, U192Limit) THEN [result |-> MathOverflow, value |-> <<>>]
      ELSE DecimalTryFloorU64(ceil_val)

\* Decimal::min
DecimalMin(a, b) == IF BigLess(b, a) THEN b ELSE a

\* The number a limb sequence stands for, for numbers the model holds as
\* integers (collateral and obligation tokens)
RECURSIVE BigToNat(_)
BigToNat(a) == IF a = <<>> THEN 0 ELSE a[1] + Limb * BigToNat(SubSeq(a, 2, Len(a)))

\* Obligation::new: nothing deposited, nothing borrowed, the reserve's rate
NewObligation(cumulative_borrow_rate_wads) ==
  [deposited_collateral_tokens |-> 0,
   cumulative_borrow_rate_wads |-> cumulative_borrow_rate_wads,
   borrowed_liquidity_wads |-> <<>>]

\* Stored rates, borrowed amounts and collateral an obligation starts with
StoredRates == {Dec(0, 0), Dec(1, 0), Dec(1, 1), Dec(2, 0)}
BorrowedAmounts == {Dec(0, 0), Dec(0, 1), Dec(1, 0), DecimalFrom(U64Max)}
Collaterals == {0, MaxCollateral}

\* Rates passed to accrue_interest; amounts passed to liquidate
NewRates ==
  {Dec(1, 0), Dec(1, 1), Dec(1, 2), Dec(2, 0), Dec(200, 0), Dec(1000, 0),
   BigSub(U192Limit, <<1>>)}
RepayAmounts == {Dec(0, 1), Dec(1, 0), Dec(2, 0)}
WithdrawAmounts == 0..(MaxCollateral + 1)

\* Liquidity amounts (u64) and obligation token supplies passed to repay
LiquidityAmounts == {<<>>, BigFromNat(1), BigFromNat(2), U64Max}
ObligationTokenSupplies == {0, MaxCollateral, MaxCollateral + 1}

(***************************************************************************)
(* Construction: CreateProgramGovernance stores the configuration as       *)
(* given; the proposal is initialised in Draft with one admin and one      *)
(* signatory token minted to its creator.                                  *)
(***************************************************************************)
InitProposalState ==
  [status |-> "Draft",
   total_signing_tokens_minted |-> 1,
   voting_began_at |-> 0,
   voting_ended_at |-> 0,
   number_of_executed_transactions |-> 0,
   number_of_transactions |-> 0,
   transactions |-> [n \in 0..(MAX_TRANSACTIONS - 1) |-> ZeroKey]]

EmptyTransaction ==
  [initialized |-> FALSE, delay_slots |-> 0, instruction |-> 0,
   instruction_end_index |-> 0, executed |-> 0]

EmptyVoteRecord == [undecided_count |-> 0, yes_count |-> 0, no_count |-> 0]

\* A VoterRecord account that has not been created (data_len() == 0)
\* The Proposal record as written when the proposal is created: the accounts
\* it belongs to and the mints and validation accounts made for it
CreatedProposal ==
  [governance |-> "GovernanceAccount", state |-> "ProposalStateAccount",
   signatory_mint |-> "SignatoryMint", admin_mint |-> "AdminMint",
   vote_mint |-> "VoteMint", yes_vote_mint |-> "YesVoteMint",
   no_vote_mint |-> "NoVoteMint", signatory_validation |-> "SignatoryValidation",
   admin_validation |-> "AdminValidation", vote_validation |-> "VoteValidation",
   source_holding |-> "SourceHolding", source_mint |-> Realm.governance_mint]

NoVoterRecord ==
  [initialized |-> FALSE, token_deposit_amount |-> 0, vote_authority |-> 0,
   active_votes_count |-> 0, total_votes_count |-> 0]

LedgerInit ==
  /\ governance \in [vote_threshold : VoteThresholds,
                     minimum_slot_waiting_period : {MinHoldUp},
                     time_limit : {TimeLimit},
                     governance_mint : {Realm.governance_mint},
                     council_mint : {Realm.council_mint}]
  /\ proposal = CreatedProposal
  /\ slot = 0
  /\ proposal_state = InitProposalState
  /\ transaction_accts = [k \in TxnAccounts |-> EmptyTransaction]
  /\ signatory_acct = [p \in Parties |-> IF p = 1 THEN 1 ELSE 0]
  /\ admin_acct = [p \in Parties |-> IF p = 1 THEN 1 ELSE 0]
  /\ source_acct = SourceTokens
  /\ voting_acct = [v \in Voters |-> 0]
  /\ yes_acct = [v \in Voters |-> 0]
  /\ no_acct = [v \in Voters |-> 0]
  /\ holding = 0
  /\ dump = [yes |-> 0, no |-> 0]
  /\ mint_supply = [signatory |-> 1, admin |-> 1, voting |-> 0, yes |-> 0, no |-> 0,
                    source |-> SourceMintSupply]
  /\ voting_record = [v \in Voters |-> EmptyVoteRecord]
  /\ in_flight = {}
  /\ governing_source = [m \in GoverningMints |-> [o \in TokenOwners |-> 0]]
  /\ realm_holding = [m \in GoverningMints |-> 0]
  /\ stray_acct = [m \in GoverningMints |-> 0]
  /\ voter_record = [m \in GoverningMints |-> [o \in TokenOwners |-> NoVoterRecord]]

\* The governance program's accounts, and an obligation nobody has called yet
Init ==
  /\ LedgerInit
  /\ obligation = NewObligation(Dec(1, 0))
  /\ obligation_result = Ok
  /\ obligation_calls = 0

\* Faulty variant: the clock closes a vote that has run past its deadline
TickClosingVote ==
  /\ slot < MaxSlot
  /\ slot' = slot + 1
  /\ proposal_state' =
       IF proposal_state.status = "Voting"
          /\ slot + 1 - proposal_state.voting_began_at > governance.time_limit
       THEN [proposal_state EXCEPT !.status = "Defeated", !.voting_ended_at = slot + 1]
       ELSE proposal_state
  /\ UNCHANGED <<in_flight, lending_vars, realm_vars, governance, proposal, transaction_accts, signatory_acct,
                 admin_acct, mint_supply, token_vars>>

\* The ledger clock advances
Tick ==
  /\ slot < MaxSlot
  /\ slot' = slot + 1
  /\ UNCHANGED <<in_flight, lending_vars, realm_vars, governance, proposal, proposal_state, transaction_accts, signatory_acct,
                 admin_acct, mint_supply, token_vars>>

(***************************************************************************)
(* Signatories                                                             *)
(***************************************************************************)
\* AddSignatory: Draft only, admin token required; one signatory token is
\* minted to the new signatory and total_signing_tokens_minted grows by one.
AddSignatoryResult(admin, authority_ok) ==
  FirstError(AssertDraft(proposal_state),
  AssertIsPermissioned(admin_acct[admin], authority_ok))

\* Faulty variant: a signatory token is minted but not counted
AddSignatoryKeepsCount(admin, signatory, authority_ok) ==
  /\ AddSignatoryResult(admin, authority_ok) = Ok
  /\ mint_supply.signatory < MaxSignatoryTokens
  /\ proposal_state.total_signing_tokens_minted < MaxSignatoryTokens
  /\ signatory_acct' = [signatory_acct EXCEPT ![signatory] = @ + 1]
  /\ mint_supply' = [mint_supply EXCEPT !.signatory = @ + 1]
  /\ UNCHANGED <<in_flight, lending_vars, realm_vars, governance, proposal, slot, proposal_state, transaction_accts,
                 admin_acct, token_vars>>

AddSignatory(admin, signatory, authority_ok) ==
  /\ AddSignatoryResult(admin, authority_ok) = Ok
  /\ mint_supply.signatory < MaxSignatoryTokens
  /\ proposal_state.total_signing_tokens_minted < MaxSignatoryTokens
  /\ signatory_acct' = [signatory_acct EXCEPT ![signatory] = @ + 1]
  /\ mint_supply' = [mint_supply EXCEPT !.signatory = @ + 1]
  /\ proposal_state' = [proposal_state EXCEPT !.total_signing_tokens_minted = @ + 1]
  /\ UNCHANGED <<in_flight, lending_vars, realm_vars, governance, proposal, slot, transaction_accts, admin_acct, token_vars>>

\* process_remove_signer
RemoveSignatoryResult(admin, signatory, accounts_ok, authority_ok) ==
  FirstError(AssertAccountEquiv(accounts_ok),
  FirstError(AssertDraft(proposal_state),
  FirstError(AssertIsPermissioned(admin_acct[admin], authority_ok),
  FirstError(AssertGovernanceAuthority(authority_ok),
  SplTokenBurn(signatory_acct[signatory], 1)))))

RemoveSignatory(admin, signatory, accounts_ok, authority_ok) ==
  /\ RemoveSignatoryResult(admin, signatory, accounts_ok, authority_ok) = Ok
  /\ signatory_acct' = [signatory_acct EXCEPT ![signatory] = @ - 1]
  /\ mint_supply' = [mint_supply EXCEPT !.signatory = @ - 1]
  /\ proposal_state' = [proposal_state EXCEPT !.total_signing_tokens_minted = @ - 1]
  /\ UNCHANGED <<in_flight, lending_vars, realm_vars, governance, proposal, slot, transaction_accts, admin_acct, token_vars>>

\* SignProposal: Draft only, signatory token required; the caller's token is
\* burned, and the burn that empties the signatory mint starts the vote.
SignProposalResult(signatory, authority_ok) ==
  FirstError(AssertDraft(proposal_state),
  AssertIsPermissioned(signatory_acct[signatory], authority_ok))

SignProposal(signatory, authority_ok) ==
  /\ SignProposalResult(signatory, authority_ok) = Ok
  /\  LET diminished_supply == mint_supply.signatory - 1
       IN  /\ signatory_acct' = [signatory_acct EXCEPT ![signatory] = @ - 1]
           /\ mint_supply' = [mint_supply EXCEPT !.signatory = diminished_supply]
           /\ proposal_state' =
                IF diminished_supply = 0
                THEN [proposal_state EXCEPT !.status = "Voting",
                                            !.voting_began_at = slot]
                ELSE proposal_state
           /\ UNCHANGED <<in_flight, lending_vars, realm_vars, governance, proposal, slot, transaction_accts, admin_acct, token_vars>>

\* process_cancel_proposal
CancelProposalResult(admin, accounts_ok, authority_ok) ==
  FirstError(AssertAccountEquiv(accounts_ok),
  FirstError(AssertNotInVotingOrExecuting(proposal_state),
  AssertIsPermissioned(admin_acct[admin], authority_ok)))

CancelProposal(admin, accounts_ok, authority_ok) ==
  /\ CancelProposalResult(admin, accounts_ok, authority_ok) = Ok
  /\ proposal_state' = [proposal_state EXCEPT !.status = "Cancelled"]
  /\ UNCHANGED <<in_flight, lending_vars, realm_vars, governance, proposal, slot, transaction_accts, signatory_acct, admin_acct,
                 mint_supply, token_vars>>

(***************************************************************************)
(* Transaction queue                                                       *)
(***************************************************************************)
\* u64 / u16 / u8 ::to_le_bytes and ::from_le_bytes
RECURSIVE LeBytes(_, _)
LeBytes(n, width) ==
  IF width = 0 THEN <<>> ELSE <<n % 256>> \o LeBytes(n \div 256, width - 1)

RECURSIVE FromLeBytes(_)
FromLeBytes(bytes) ==
  IF Len(bytes) = 0 THEN 0 ELSE bytes[1] + 256 * FromLeBytes(Tail(bytes))

\* The instruction payloads considered are INSTRUCTION_LIMIT copies of one
\* byte; a transaction record keeps that byte
Instructions == {0, 7}
InstructionBytes(fill) == SubSeq([i \in 1..INSTRUCTION_LIMIT |-> fill], 1, INSTRUCTION_LIMIT)
InstructionOfBytes(bytes) == bytes[1]

\* Faulty variant: the end index is written as a single byte
PackTransactionNarrowIndex(txn) ==
  <<IF txn.initialized THEN 5 ELSE 0>>
    \o LeBytes(txn.delay_slots, 8)
    \o InstructionBytes(txn.instruction)
    \o LeBytes(txn.executed, 1)
    \o LeBytes(txn.instruction_end_index, 1) \o <<0>>
    \o Zeros(300)

\* CustomSingleSignerTransaction::pack_into_slice: the account type, the
\* delay, the instruction bytes, the executed flag, the end index and the
\* padding, of 1, 8, INSTRUCTION_LIMIT, 1, 2 and 300 bytes.
PackTransaction(txn) ==
  <<IF txn.initialized THEN 5 ELSE 0>>
    \o LeBytes(txn.delay_slots, 8)
    \o InstructionBytes(txn.instruction)
    \o LeBytes(txn.executed, 1)
    \o LeBytes(txn.instruction_end_index, 2)
    \o Zeros(300)

\* CustomSingleSignerTransaction::unpack_from_slice: an account type byte
\* other than 0 (Uninitialized) and 5 (CustomSingleSignerTransaction) is
\* refused with InvalidAccountData
UnpackTransaction(data) ==
  IF data[1] # 0 /\ data[1] # 5 THEN "InvalidAccountData"
  ELSE [initialized |-> data[1] = 5,
        delay_slots |-> FromLeBytes(SubSeq(data, 2, 9)),
        instruction |-> InstructionOfBytes(SubSeq(data, 10, 9 + INSTRUCTION_LIMIT)),
        executed |-> FromLeBytes(SubSeq(data, 10 + INSTRUCTION_LIMIT, 10 + INSTRUCTION_LIMIT)),
        instruction_end_index |->
          FromLeBytes(SubSeq(data, 11 + INSTRUCTION_LIMIT, 12 + INSTRUCTION_LIMIT))]

\* Faulty variant: position MAX_TRANSACTIONS itself is let through
AddTransactionPositionOffByOne(signatory, key, delay_slots, position, instruction_end_index, accounts_ok, authority_ok) ==
  FirstError(AssertUninitialized(transaction_accts[key]),
  FirstError(IF position > MAX_TRANSACTIONS THEN "TooHighPositionInTxnArrayError" ELSE Ok,
  FirstError(IF instruction_end_index >= INSTRUCTION_LIMIT THEN "InvalidInstructionEndIndex" ELSE Ok,
  FirstError(AssertAccountEquiv(accounts_ok),
  FirstError(AssertDraft(proposal_state),
  FirstError(AssertIsPermissioned(signatory_acct[signatory], authority_ok),
  IF delay_slots < governance.minimum_slot_waiting_period THEN "MustBeAboveMinimumWaitingPeriod" ELSE Ok))))))

\* Faulty variant: a delay equal to the minimum waiting period is refused
AddTransactionDelayStrict(signatory, key, delay_slots, position, instruction_end_index, accounts_ok, authority_ok) ==
  FirstError(AssertUninitialized(transaction_accts[key]),
  FirstError(IF position >= MAX_TRANSACTIONS THEN "TooHighPositionInTxnArrayError" ELSE Ok,
  FirstError(IF instruction_end_index >= INSTRUCTION_LIMIT THEN "InvalidInstructionEndIndex" ELSE Ok,
  FirstError(AssertAccountEquiv(accounts_ok),
  FirstError(AssertDraft(proposal_state),
  FirstError(AssertIsPermissioned(signatory_acct[signatory], authority_ok),
  IF delay_slots <= governance.minimum_slot_waiting_period THEN "MustBeAboveMinimumWaitingPeriod" ELSE Ok))))))

\* process_add_custom_single_signer_transaction
AddCustomSingleSignerTransactionResult(signatory, key, delay_slots, position, instruction_end_index, accounts_ok, authority_ok) ==
  FirstError(AssertUninitialized(transaction_accts[key]),
  FirstError(IF position >= MAX_TRANSACTIONS THEN "TooHighPositionInTxnArrayError" ELSE Ok,
  FirstError(IF instruction_end_index >= INSTRUCTION_LIMIT THEN "InvalidInstructionEndIndex" ELSE Ok,
  FirstError(AssertAccountEquiv(accounts_ok),
  FirstError(AssertDraft(proposal_state),
  FirstError(AssertIsPermissioned(signatory_acct[signatory], authority_ok),
  IF delay_slots < governance.minimum_slot_waiting_period THEN "MustBeAboveMinimumWaitingPeriod" ELSE Ok))))))

\* The record the timelock handler writes: the instruction is stored
TimelockTransactionWritten(txn, delay_slots, instruction, instruction_end_index) ==
  [txn EXCEPT !.initialized = TRUE, !.delay_slots = delay_slots, !.instruction = instruction,
              !.instruction_end_index = instruction_end_index]

\* The record the governance handler writes: the assignment of the instruction
\* is commented out, the field keeps what the fresh account held
GovernanceTransactionWritten(txn, delay_slots, instruction, instruction_end_index) ==
  [txn EXCEPT !.initialized = TRUE, !.delay_slots = delay_slots,
              !.instruction_end_index = instruction_end_index]

AddTransactionWithInstruction(signatory, key, delay_slots, instruction, position, instruction_end_index, accounts_ok, authority_ok) ==
  /\ AddCustomSingleSignerTransactionResult(signatory, key, delay_slots, position,
         instruction_end_index, accounts_ok, authority_ok) = Ok
  /\ transaction_accts' =
       [transaction_accts EXCEPT ![key] =
          UnpackTransaction(PackTransaction(
            GovernanceTransactionWritten(@, delay_slots, instruction,
                                         instruction_end_index)))]
  /\ proposal_state' =
       [proposal_state EXCEPT !.transactions[position] = key,
                              !.number_of_transactions = @ + 1]
  /\ UNCHANGED <<in_flight, lending_vars, realm_vars, governance, proposal, slot, signatory_acct, admin_acct, mint_supply,
                 token_vars>>

\* process_add_custom_single_signer_transaction, with whatever instruction
\* bytes the caller supplies
AddCustomSingleSignerTransaction(signatory, key, delay_slots, position, instruction_end_index, accounts_ok, authority_ok) ==
  /\ AddCustomSingleSignerTransactionResult(signatory, key, delay_slots, position,
         instruction_end_index, accounts_ok, authority_ok) = Ok
  /\ \E instruction \in Instructions :
       AddTransactionWithInstruction(signatory, key, delay_slots, instruction, position,
                                     instruction_end_index, accounts_ok, authority_ok)

\* process_remove_transaction
RemoveTransactionResult(signatory, key, accounts_ok, authority_ok) ==
  FirstError(AssertAccountEquiv(accounts_ok),
  FirstError(AssertDraft(proposal_state),
  FirstError(AssertIsPermissioned(signatory_acct[signatory], authority_ok),
  AssertTxnInState(proposal_state, key))))

\* Faulty variant: the slots after the removed one move down by one
RemoveFromTransactionsCompacting(transactions, key) ==
  LET n == CHOOSE i \in 0..(MAX_TRANSACTIONS - 1) :
             transactions[i] = key /\ \A j \in 0..(i - 1) : transactions[j] # key
  IN  [i \in 0..(MAX_TRANSACTIONS - 1) |->
         IF i < n THEN transactions[i]
         ELSE IF i < MAX_TRANSACTIONS - 1 THEN transactions[i + 1]
         ELSE ZeroKey]

\* The array with the first slot that holds `key` zeroed
RemoveFromTransactions(transactions, key) ==
  LET n == CHOOSE i \in 0..(MAX_TRANSACTIONS - 1) :
             transactions[i] = key /\ \A j \in 0..(i - 1) : transactions[j] # key
  IN  [transactions EXCEPT ![n] = ZeroKey]

\* Faulty variant: the record is written back with the queue and without the
\* account of the proposal's state
RemoveTransactionRewritingProposal(signatory, key, accounts_ok, authority_ok) ==
  /\ RemoveTransactionResult(signatory, key, accounts_ok, authority_ok) = Ok
  /\ proposal_state' =
       [proposal_state EXCEPT
          !.transactions = RemoveFromTransactions(proposal_state.transactions, key)]
  /\ proposal' = [proposal EXCEPT !.state = "NoAccount"]
  /\ UNCHANGED <<in_flight, lending_vars, realm_vars, governance, slot, transaction_accts, signatory_acct, admin_acct,
                 mint_supply, token_vars>>

RemoveTransaction(signatory, key, accounts_ok, authority_ok) ==
  /\ RemoveTransactionResult(signatory, key, accounts_ok, authority_ok) = Ok
  /\ proposal_state' =
       [proposal_state EXCEPT
          !.transactions = RemoveFromTransactions(proposal_state.transactions, key)]
  /\ UNCHANGED <<in_flight, lending_vars, realm_vars, governance, proposal, slot, transaction_accts, signatory_acct, admin_acct,
                 mint_supply, token_vars>>

\* The keys held by the transaction array
QueuedTransactions(state) ==
  {state.transactions[n] : n \in 0..(MAX_TRANSACTIONS - 1)} \ {ZeroKey}

\* Execute is eligible from voting_ended_at + delay_slots on
AssertEligible(current_slot, voting_ended_at, delay_slots) ==
  IF current_slot < voting_ended_at + delay_slots THEN "TooEarlyToExecute" ELSE Ok

AssertNotExecuted(transaction) ==
  IF transaction.executed # 0 THEN "TransactionAlreadyExecuted" ELSE Ok

\* The accounts that hold a transaction record: Execute is called on these
TransactionRecords == {k \in TxnAccounts : transaction_accts[k].initialized}

\* Every queued transaction is executed once `key` is
AllQueuedExecuted(state, accounts, key) ==
  \A k \in QueuedTransactions(state) : k = key \/ accounts[k].executed = 1

\* Execute: status must be Executing, the addressed transaction must be due
\* and not yet executed; the governed program is invoked with its
\* instruction (utils.rs execute turns a failed invocation into
\* ExecutionFailed).
ExecuteResult(key, invoke_ok) ==
  FirstError(AssertExecuting(proposal_state),
  FirstError(AssertEligible(slot, proposal_state.voting_ended_at, transaction_accts[key].delay_slots),
  FirstError(AssertNotExecuted(transaction_accts[key]),
  IF ~invoke_ok THEN "ExecutionFailed" ELSE Ok)))

Execute(key, invoke_ok) ==
  /\ ExecuteResult(key, invoke_ok) = Ok
  /\ transaction_accts' = [transaction_accts EXCEPT ![key].executed = 1]
  /\ proposal_state' =
       [proposal_state EXCEPT
          !.number_of_executed_transactions = @ + 1,
          !.status = IF AllQueuedExecuted(proposal_state, transaction_accts, key)
                     THEN "Completed" ELSE @]
  /\ UNCHANGED <<in_flight, lending_vars, realm_vars, governance, proposal, slot, signatory_acct, admin_acct, mint_supply,
                 token_vars>>

(***************************************************************************)
(* Voting                                                                  *)
(***************************************************************************)
\* DepositSourceTokens: the caller's source tokens go to the holding account
\* in escrow and as many voting tokens are minted to the caller.
DepositSourceTokensResult(voter, voting_token_amount) ==
  SplTokenTransfer(source_acct[voter], voting_token_amount)

DepositSourceTokens(voter, voting_token_amount) ==
  /\ DepositSourceTokensResult(voter, voting_token_amount) = Ok
  /\ source_acct' = [source_acct EXCEPT ![voter] = @ - voting_token_amount]
  /\ holding' = holding + voting_token_amount
  /\ voting_acct' = [voting_acct EXCEPT ![voter] = @ + voting_token_amount]
  /\ mint_supply' = [mint_supply EXCEPT !.voting = @ + voting_token_amount]
  /\ UNCHANGED <<in_flight, lending_vars, realm_vars, governance, proposal, slot, proposal_state, transaction_accts,
                 signatory_acct, admin_acct, yes_acct, no_acct, dump, voting_record>>

YesVoteAmount(vote) == IF vote.kind = "Yes" THEN vote.amount ELSE 0

NoVoteAmount(vote) == IF vote.kind = "No" THEN vote.amount ELSE 0

\* source_mint_supply - yes_vote_amount - yes_mint_supply (both subtractions
\* are checked: see VoteResult)
NowRemainingInNoColumn(source_mint_supply, yes_vote_amount, yes_mint_supply) ==
  source_mint_supply - yes_vote_amount - yes_mint_supply

\* The percentages the tipping test compares, worked out once per pair
CastPercentTable ==
  [total \in 1..SourceMintSupply |->
     [remaining \in 0..total |-> CastPercent(remaining, total)]]

\* vote_threshold as f64, for every u8
ThresholdTable == [vote_threshold \in 0..255 |-> F64FromU64(vote_threshold)]

Tipped(now_remaining_in_no_column, total_ever_existed, vote_threshold) ==
  \/ now_remaining_in_no_column = 0
  \/ F64Ge(CastPercentTable[total_ever_existed][now_remaining_in_no_column],
           ThresholdTable[vote_threshold])

TooLong(elapsed, time_limit) == elapsed > time_limit

\* process_vote
VoteResult(voter, vote, accounts_ok, authority_ok, record_ok) ==
  FirstError(AssertAccountEquiv(accounts_ok),
  FirstError(AssertVoting(proposal_state),
  FirstError(AssertGovernanceAuthority(authority_ok),
  FirstError(CheckedSub(mint_supply.source, YesVoteAmount(vote)),
  FirstError(CheckedSub(mint_supply.source - YesVoteAmount(vote), mint_supply.yes),
  FirstError(SplTokenBurn(voting_acct[voter], YesVoteAmount(vote) + NoVoteAmount(vote)),
  FirstError(CheckedSub(slot, proposal_state.voting_began_at),
  IF ~record_ok THEN "InvalidGovernanceVoteRecord" ELSE Ok)))))))

Vote(voter, vote, accounts_ok, authority_ok, record_ok) ==
  /\ VoteResult(voter, vote, accounts_ok, authority_ok, record_ok) = Ok
  /\  LET yes_vote_amount == YesVoteAmount(vote)
           no_vote_amount  == NoVoteAmount(vote)
           total_ever_existed == mint_supply.source
           now_remaining_in_no_column ==
             NowRemainingInNoColumn(mint_supply.source, yes_vote_amount, mint_supply.yes)
           tipped   == Tipped(now_remaining_in_no_column, total_ever_existed,
                              governance.vote_threshold)
           too_long == TooLong(slot - proposal_state.voting_began_at,
                               governance.time_limit)
           total_change == yes_vote_amount + no_vote_amount
       IN  /\ voting_acct' = [voting_acct EXCEPT ![voter] = @ - total_change]
           /\ yes_acct' = [yes_acct EXCEPT ![voter] = @ + yes_vote_amount]
           /\ no_acct' = [no_acct EXCEPT ![voter] = @ + no_vote_amount]
           /\ mint_supply' = [mint_supply EXCEPT !.voting = @ - total_change,
                                                 !.yes = @ + yes_vote_amount,
                                                 !.no = @ + no_vote_amount]
           /\ proposal_state' =
                IF tipped \/ too_long
                THEN [proposal_state EXCEPT
                        !.status = IF tipped THEN "Executing" ELSE "Defeated",
                        !.voting_ended_at = slot]
                ELSE proposal_state
           /\ voting_record' =
                [voting_record EXCEPT ![voter] =
                   [yes_count |-> yes_acct[voter] + yes_vote_amount,
                    no_count |-> no_acct[voter] + no_vote_amount,
                    undecided_count |-> voting_acct[voter] - total_change]]
           /\ UNCHANGED <<in_flight, lending_vars, realm_vars, governance, proposal, slot, transaction_accts, signatory_acct,
                          admin_acct, source_acct, holding, dump>>

Min(a, b) == IF a < b THEN a ELSE b

\* Faulty variant: the yes and no tokens can be withdrawn while the vote is open
TotalPossibleAnyStatus(voter) ==
  voting_acct[voter] + yes_acct[voter] + no_acct[voter]

\* process_withdraw_voting_tokens
TotalPossible(voter) ==
  IF proposal_state.status = "Voting" THEN voting_acct[voter]
  ELSE voting_acct[voter] + yes_acct[voter] + no_acct[voter]

WithdrawVotingTokensResult(voter, voting_token_amount, accounts_ok, authority_ok) ==
  FirstError(AssertAccountEquiv(accounts_ok),
  FirstError(IF ~authority_ok THEN "InvalidTimelockAuthority" ELSE Ok,
  FirstError(IF voting_token_amount > TotalPossible(voter) THEN "TokenAmountAboveGivenAmount" ELSE Ok,
  SplTokenTransfer(holding, voting_token_amount))))

WithdrawVotingTokens(voter, voting_token_amount, accounts_ok, authority_ok) ==
  /\ WithdrawVotingTokensResult(voter, voting_token_amount, accounts_ok, authority_ok) = Ok
  /\  LET amount_to_burn == Min(voting_acct[voter], voting_token_amount)
           fuel_after_burn == voting_token_amount - amount_to_burn
           not_voting == proposal_state.status # "Voting"
           yes_to_dump == IF not_voting THEN Min(yes_acct[voter], fuel_after_burn) ELSE 0
           fuel_after_yes == fuel_after_burn - yes_to_dump
           no_to_dump == IF not_voting /\ no_acct[voter] > 0 THEN fuel_after_yes ELSE 0
       IN  /\ voting_acct' = [voting_acct EXCEPT ![voter] = @ - amount_to_burn]
           /\ yes_acct' = [yes_acct EXCEPT ![voter] = @ - yes_to_dump]
           /\ no_acct' = [no_acct EXCEPT ![voter] = @ - no_to_dump]
           /\ dump' = [yes |-> dump.yes + yes_to_dump, no |-> dump.no + no_to_dump]
           /\ mint_supply' = [mint_supply EXCEPT !.voting = @ - amount_to_burn]
           /\ holding' = holding - voting_token_amount
           /\ source_acct' = [source_acct EXCEPT ![voter] = @ + voting_token_amount]
           /\ UNCHANGED <<in_flight, lending_vars, realm_vars, governance, proposal, slot, proposal_state, transaction_accts,
                          signatory_acct, admin_acct, voting_record>>

(***************************************************************************)
(* The ledger runs one instruction at a time, each to completion.  An      *)
(* instruction whose result is not Ok is rolled back whole: it leaves every *)
(* account as it was, a stuttering step; the steps below are those of the  *)
(* instructions that succeed.  What a call with a wrong account, authority *)
(* or record address returns is given by the Result operators.             *)
(***************************************************************************)
Next ==
  \/ Tick
  \/ \E a \in Parties, s \in Parties : AddSignatory(a, s, TRUE)
  \/ \E a \in Parties, s \in Parties : RemoveSignatory(a, s, TRUE, TRUE)
  \/ \E s \in Parties : SignProposal(s, TRUE)
  \/ \E a \in Parties : CancelProposal(a, TRUE, TRUE)
  \/ \E s \in Parties, k \in TxnAccounts, d \in Delays, p \in Positions, e \in EndIndexes :
       AddCustomSingleSignerTransaction(s, k, d, p, e, TRUE, TRUE)
  \/ \E s \in Parties, k \in TxnAccounts : RemoveTransaction(s, k, TRUE, TRUE)
  \/ \E v \in Voters, n \in Amounts : DepositSourceTokens(v, n)
  \/ \E v \in Voters, vote \in Votes : Vote(v, vote, TRUE, TRUE, TRUE)
  \/ \E v \in Voters, n \in Amounts : WithdrawVotingTokens(v, n, TRUE, TRUE)
  \/ \E k \in TransactionRecords : Execute(k, TRUE)

Spec == Init /\ [][Next]_vars

(***************************************************************************)
(* Instructions that return an error.  A handler writes to its accounts as *)
(* it goes; the ledger commits what an instruction wrote only if the       *)
(* instruction returns Ok, and otherwise puts the accounts back as they    *)
(* were before it.  An instruction that fails after it has written is two  *)
(* steps here: the handler's writes, then the return of the error.         *)
(***************************************************************************)
Rollback(result, before, written) == IF result = Ok THEN written ELSE before

\* The accounts process_vote writes
VoteAccounts ==
  [voting_acct |-> voting_acct, yes_acct |-> yes_acct, no_acct |-> no_acct,
   mint_supply |-> mint_supply, proposal_state |-> proposal_state]

\* What process_vote has written when it comes to check the address of the
\* vote record: the burn, the two mints and the status of the proposal.
VoteWrites(voter, vote) ==
  LET yes_vote_amount == YesVoteAmount(vote)
      no_vote_amount  == NoVoteAmount(vote)
      tipped   == Tipped(NowRemainingInNoColumn(mint_supply.source, yes_vote_amount,
                                                mint_supply.yes),
                         mint_supply.source, governance.vote_threshold)
      too_long == TooLong(slot - proposal_state.voting_began_at, governance.time_limit)
  IN  [voting_acct |-> [voting_acct EXCEPT ![voter] = @ - (yes_vote_amount + no_vote_amount)],
       yes_acct |-> [yes_acct EXCEPT ![voter] = @ + yes_vote_amount],
       no_acct |-> [no_acct EXCEPT ![voter] = @ + no_vote_amount],
       mint_supply |-> [mint_supply EXCEPT !.voting = @ - (yes_vote_amount + no_vote_amount),
                                           !.yes = @ + yes_vote_amount,
                                           !.no = @ + no_vote_amount],
       proposal_state |->
         IF tipped \/ too_long
         THEN [proposal_state EXCEPT
                 !.status = IF tipped THEN "Executing" ELSE "Defeated",
                 !.voting_ended_at = slot]
         ELSE proposal_state]

\* process_vote up to its last check: every earlier check has passed, the
\* handler has burned the voting tokens, minted the yes or no tokens and
\* written the proposal state, and the address of the vote record turns out
\* wrong.  The accounts hold what the handler wrote; the error is yet to be
\* returned.
VoteWithWrongRecord(voter, vote) ==
  /\ in_flight = {}
  /\ VoteResult(voter, vote, TRUE, TRUE, FALSE) = "InvalidGovernanceVoteRecord"
  /\ in_flight' = {[result |-> VoteResult(voter, vote, TRUE, TRUE, FALSE),
                    before |-> VoteAccounts]}
  /\ voting_acct' = VoteWrites(voter, vote).voting_acct
  /\ yes_acct' = VoteWrites(voter, vote).yes_acct
  /\ no_acct' = VoteWrites(voter, vote).no_acct
  /\ mint_supply' = VoteWrites(voter, vote).mint_supply
  /\ proposal_state' = VoteWrites(voter, vote).proposal_state
  /\ UNCHANGED <<lending_vars, realm_vars, governance, proposal, slot, transaction_accts,
                 signatory_acct, admin_acct, source_acct, holding, dump, voting_record>>

\* The instruction in flight returns: the ledger keeps or discards its writes
ReturnFromInstruction ==
  \E call \in in_flight :
    LET after == Rollback(call.result, call.before, VoteAccounts)
    IN  /\ in_flight' = {}
        /\ voting_acct' = after.voting_acct
        /\ yes_acct' = after.yes_acct
        /\ no_acct' = after.no_acct
        /\ mint_supply' = after.mint_supply
        /\ proposal_state' = after.proposal_state
        /\ UNCHANGED <<lending_vars, realm_vars, governance, proposal, slot,
                       transaction_accts, signatory_acct, admin_acct, source_acct,
                       holding, dump, voting_record>>

\* A Vote that fails on a check that comes before the burn
RejectedVote ==
  /\ ~ \A v \in Voters, vote \in Votes, accounts_ok \in BOOLEAN, authority_ok \in BOOLEAN :
       VoteResult(v, vote, accounts_ok, authority_ok, TRUE) = Ok
  /\ UNCHANGED vars

\* In the other handlers every check that can fail comes before the first
\* write, and a failed token operation writes nothing: a call of the handler
\* that returns an error (some call does unless all of them are accepted)
\* leaves the accounts alone.
RejectedAddSignatory ==
  /\ ~ \A a \in Parties, authority_ok \in BOOLEAN : AddSignatoryResult(a, authority_ok) = Ok
  /\ UNCHANGED vars

RejectedRemoveSignatory ==
  /\ ~ \A a \in Parties, s \in Parties, accounts_ok \in BOOLEAN, authority_ok \in BOOLEAN :
       RemoveSignatoryResult(a, s, accounts_ok, authority_ok) = Ok
  /\ UNCHANGED vars

RejectedSignProposal ==
  /\ ~ \A s \in Parties, authority_ok \in BOOLEAN : SignProposalResult(s, authority_ok) = Ok
  /\ UNCHANGED vars

RejectedCancelProposal ==
  /\ ~ \A a \in Parties, accounts_ok \in BOOLEAN, authority_ok \in BOOLEAN :
       CancelProposalResult(a, accounts_ok, authority_ok) = Ok
  /\ UNCHANGED vars

RejectedAddCustomSingleSignerTransaction ==
  /\ ~ \A s \in Parties, k \in TxnAccounts, d \in Delays, p \in Positions, e \in EndIndexes,
        accounts_ok \in BOOLEAN, authority_ok \in BOOLEAN :
       AddCustomSingleSignerTransactionResult(s, k, d, p, e, accounts_ok, authority_ok) = Ok
  /\ UNCHANGED vars

RejectedRemoveTransaction ==
  /\ ~ \A s \in Parties, k \in TxnAccounts, accounts_ok \in BOOLEAN, authority_ok \in BOOLEAN :
       RemoveTransactionResult(s, k, accounts_ok, authority_ok) = Ok
  /\ UNCHANGED vars

RejectedExecute ==
  /\ ~ \A k \in TxnAccounts, invoke_ok \in BOOLEAN : ExecuteResult(k, invoke_ok) = Ok
  /\ UNCHANGED vars

RejectedDepositSourceTokens ==
  /\ ~ \A v \in Voters, n \in Amounts : DepositSourceTokensResult(v, n) = Ok
  /\ UNCHANGED vars

RejectedWithdrawVotingTokens ==
  /\ ~ \A v \in Voters, n \in Amounts, accounts_ok \in BOOLEAN, authority_ok \in BOOLEAN :
       WithdrawVotingTokensResult(v, n, accounts_ok, authority_ok) = Ok
  /\ UNCHANGED vars

\* Instructions run one at a time: no other instruction starts while one has
\* written and not yet returned.
NextWithErrors ==
  \/ in_flight = {} /\ Next
  \/ RejectedAddSignatory
  \/ RejectedRemoveSignatory
  \/ RejectedSignProposal
  \/ RejectedCancelProposal
  \/ RejectedAddCustomSingleSignerTransaction
  \/ RejectedRemoveTransaction
  \/ RejectedExecute
  \/ RejectedDepositSourceTokens
  \/ RejectedVote
  \/ RejectedWithdrawVotingTokens
  \/ \E v \in Voters, vote \in Votes : VoteWithWrongRecord(v, vote)
  \/ ReturnFromInstruction

SpecWithErrors == Init /\ [][NextWithErrors]_vars

(***************************************************************************)
(* UpdateTransactionDelaySlots: Draft only, signatory token required; the  *)
(* delay_slots of a transaction queued in the proposal is rewritten.       *)
(***************************************************************************)
UpdateTransactionDelaySlotsResult(signatory, key, delay_slots, accounts_ok, authority_ok) ==
  FirstError(AssertAccountEquiv(accounts_ok),
  FirstError(AssertDraft(proposal_state),
  FirstError(AssertIsPermissioned(signatory_acct[signatory], authority_ok),
  AssertTxnInState(proposal_state, key))))

UpdateTransactionDelaySlots(signatory, key, delay_slots, accounts_ok, authority_ok) ==
  /\ UpdateTransactionDelaySlotsResult(signatory, key, delay_slots, accounts_ok,
                                       authority_ok) = Ok
  /\ transaction_accts' = [transaction_accts EXCEPT ![key].delay_slots = delay_slots]
  /\ UNCHANGED <<in_flight, lending_vars, realm_vars, governance, proposal, slot, proposal_state, signatory_acct, admin_acct,
                 mint_supply, token_vars>>

NextWithUpdate ==
  \/ Next
  \/ \E s \in Parties, k \in TxnAccounts, d \in Delays :
       UpdateTransactionDelaySlots(s, k, d, TRUE, TRUE)

SpecWithUpdate == Init /\ [][NextWithUpdate]_vars

(***************************************************************************)
(* The realm's deposit ledger: governing tokens are deposited into the      *)
(* realm's holding account and a VoterRecord per governing mint and owner   *)
(* keeps the amount deposited and the vote authority.                       *)
(***************************************************************************)
ledger_vars == <<governance, proposal, slot, proposal_state, transaction_accts, signatory_acct,
                 admin_acct, mint_supply, token_vars, in_flight>>

\* What the instructions on the realm leave alone
proposal_vars == <<ledger_vars, lending_vars>>

\* Tokens of a governing mint are minted to an owner's account (the token
\* program, outside the governance program)
MintGoverningTokens(mint, owner) ==
  /\ governing_source[mint][owner] + realm_holding[mint] + stray_acct[mint]
       + governing_source[mint][3 - owner] < MaxGoverningTokens
  /\ governing_source' = [governing_source EXCEPT ![mint][owner] = @ + 1]
  /\ UNCHANGED <<realm_holding, stray_acct, voter_record, proposal_vars>>

\* get_mint_from_token_account of the account passed as the holding account
HoldingMint(mint, holding_account) ==
  IF holding_account = "OtherMintAccount" THEN OtherMint ELSE mint

\* process_deposit_governing_tokens: the mint of the account passed as holding
\* account must be one of the realm's; the transfer needs the owner's signature
DepositGoverningTokensResult(owner, mint, holding_account, owner_signed) ==
  FirstError(IF /\ HoldingMint(mint, holding_account) # Realm.governance_mint
                /\ HoldingMint(mint, holding_account) # Realm.council_mint
             THEN "InvalidGoverningTokenMint" ELSE Ok,
  IF ~owner_signed THEN "MissingRequiredSignature" ELSE Ok)

\* The record written by a deposit of `amount`
DepositedVoterRecord(record, owner, amount) ==
  IF ~record.initialized
  THEN [initialized |-> TRUE, token_deposit_amount |-> amount, vote_authority |-> owner,
        active_votes_count |-> 0, total_votes_count |-> 0]
  ELSE [record EXCEPT !.token_deposit_amount = @ + amount]

\* The whole balance of the source account goes to the account passed as the
\* holding account, and the VoterRecord of the mint and the owner is credited
DepositGoverningTokens(owner, mint, holding_account, owner_signed) ==
  /\ DepositGoverningTokensResult(owner, mint, holding_account, owner_signed) = Ok
  /\  LET amount == governing_source[mint][owner]
       IN  /\ governing_source' = [governing_source EXCEPT ![mint][owner] = @ - amount]
           /\ realm_holding' =
                IF holding_account = "RealmHolding"
                THEN [realm_holding EXCEPT ![mint] = @ + amount] ELSE realm_holding
           /\ stray_acct' =
                IF holding_account = "RealmHolding"
                THEN stray_acct ELSE [stray_acct EXCEPT ![mint] = @ + amount]
           /\ voter_record' =
                [voter_record EXCEPT ![mint][owner] = DepositedVoterRecord(@, owner, amount)]
  /\ UNCHANGED proposal_vars

\* WithdrawGoverningTokens: signed by the owner; the amount deposited goes
\* back from the realm's holding account to the owner and the record is set
\* to zero; refused while the record has active votes.
WithdrawGoverningTokensResult(owner, mint, owner_signed) ==
  FirstError(IF ~owner_signed THEN "GoverningTokenOwnerMustSign" ELSE Ok,
  FirstError(IF ~voter_record[mint][owner].initialized THEN "InvalidVoterAccountAddress" ELSE Ok,
  FirstError(IF voter_record[mint][owner].active_votes_count > 0 THEN "CannotWithdrawGoverningTokensWhenActiveVotesExist" ELSE Ok,
  SplTokenDebit(realm_holding[mint], voter_record[mint][owner].token_deposit_amount))))

WithdrawGoverningTokens(owner, mint, owner_signed) ==
  /\ WithdrawGoverningTokensResult(owner, mint, owner_signed) = Ok
  /\  LET amount == voter_record[mint][owner].token_deposit_amount
       IN  /\ realm_holding' = [realm_holding EXCEPT ![mint] = @ - amount]
           /\ governing_source' = [governing_source EXCEPT ![mint][owner] = @ + amount]
           /\ voter_record' = [voter_record EXCEPT ![mint][owner].token_deposit_amount = 0]
  /\ UNCHANGED <<stray_acct, proposal_vars>>

\* Faulty variant: anybody can set the vote authority of a record
SetVoteAuthorityUnsigned(owner, mint, new_vote_authority, owner_signed) ==
  IF ~voter_record[mint][owner].initialized THEN "InvalidVoterAccountAddress" ELSE Ok

\* SetVoteAuthority: signed by the governing token owner; the record's
\* vote_authority becomes the address passed.
SetVoteAuthorityResult(owner, mint, new_vote_authority, owner_signed) ==
  FirstError(IF ~owner_signed THEN "GoverningTokenOwnerMustSign" ELSE Ok,
  IF ~voter_record[mint][owner].initialized THEN "InvalidVoterAccountAddress" ELSE Ok)

SetVoteAuthority(owner, mint, new_vote_authority, owner_signed) ==
  /\ SetVoteAuthorityResult(owner, mint, new_vote_authority, owner_signed) = Ok
  /\ voter_record' = [voter_record EXCEPT ![mint][owner].vote_authority = new_vote_authority]
  /\ UNCHANGED <<governing_source, realm_holding, stray_acct, proposal_vars>>

\* The accepted calls on the realm: \E over every account the caller may pass
RealmNext ==
  \/ \E m \in GoverningMints, o \in TokenOwners : MintGoverningTokens(m, o)
  \/ \E o \in TokenOwners, m \in GoverningMints, h \in HoldingAccounts :
       DepositGoverningTokens(o, m, h, TRUE)
  \/ \E o \in TokenOwners, m \in GoverningMints : WithdrawGoverningTokens(o, m, TRUE)
  \/ \E o \in TokenOwners, m \in GoverningMints, a \in VoteAuthorities :
       SetVoteAuthority(o, m, a, TRUE)

\* The realm is looked at beside one governance, the proposal at rest
RealmInit == Init /\ governance.vote_threshold = 60

RealmSpec == RealmInit /\ [][RealmNext]_vars

(***************************************************************************)
(* Token lending: the calls on an Obligation.  A call works on the struct  *)
(* in memory and returns Ok or an error; what it has assigned before an    *)
(* error stays assigned in the struct.                                     *)
(***************************************************************************)
\* Obligation::accrue_interest
ObligationAccrueInterest(ob, cumulative_borrow_rate) ==
  LET quotient == DecimalTryDiv(cumulative_borrow_rate, ob.cumulative_borrow_rate_wads)
      compounded_interest_rate == RateTryFrom(quotient.value)
      compounded == DecimalTryMul(ob.borrowed_liquidity_wads, compounded_interest_rate.value)
  IN  IF BigLess(cumulative_borrow_rate, ob.cumulative_borrow_rate_wads)
      THEN [result |-> "NegativeInterestRate", obligation |-> ob]
      ELSE IF quotient.result # Ok THEN [result |-> quotient.result, obligation |-> ob]
      ELSE IF compounded_interest_rate.result # Ok
      THEN [result |-> compounded_interest_rate.result, obligation |-> ob]
      ELSE IF compounded.result # Ok THEN [result |-> compounded.result, obligation |-> ob]
      ELSE [result |-> Ok,
            obligation |-> [ob EXCEPT !.borrowed_liquidity_wads = compounded.value,
                                      !.cumulative_borrow_rate_wads = cumulative_borrow_rate]]

\* Obligation::liquidate: the borrowed amount is assigned before the
\* collateral is checked
ObligationLiquidate(ob, repay_amount, withdraw_amount) ==
  LET remaining == DecimalTrySub(ob.borrowed_liquidity_wads, repay_amount)
      repaid == [ob EXCEPT !.borrowed_liquidity_wads = remaining.value]
  IN  IF remaining.result # Ok THEN [result |-> remaining.result, obligation |-> ob]
      ELSE IF withdraw_amount > ob.deposited_collateral_tokens
      THEN [result |-> MathOverflow, obligation |-> repaid]
      ELSE [result |-> Ok,
            obligation |-> [repaid EXCEPT !.deposited_collateral_tokens = @ - withdraw_amount]]

\* Obligation::collateral_to_obligation_token_amount
CollateralToObligationTokenAmount(ob, collateral_amount, obligation_token_supply) ==
  LET withdraw_pct == DecimalTryDivU64(DecimalFrom(BigFromNat(collateral_amount)), BigFromNat(ob.deposited_collateral_tokens))
      token_amount == DecimalTryMulU64(withdraw_pct.value, BigFromNat(obligation_token_supply))
  IN  IF withdraw_pct.result # Ok THEN withdraw_pct
      ELSE IF token_amount.result # Ok THEN token_amount
      ELSE DecimalTryFloorU64(token_amount.value)

\* Obligation::repay: the amount repaid is the smaller of the amount given
\* and the borrowed amount; the same share of the collateral is withdrawn,
\* rounded down.  Every error before the call of liquidate leaves the
\* obligation as it was.
ObligationRepay(ob, liquidity_amount, obligation_token_supply) ==
  LET decimal_repay_amount == DecimalMin(DecimalFrom(liquidity_amount), ob.borrowed_liquidity_wads)
      integer_repay_amount == DecimalTryCeilU64(decimal_repay_amount)
      repay_pct == DecimalTryDiv(decimal_repay_amount, ob.borrowed_liquidity_wads)
      withdraw_amount == DecimalTryMulU64(repay_pct.value, BigFromNat(ob.deposited_collateral_tokens))
      collateral_withdraw_amount == DecimalTryFloorU64(withdraw_amount.value)
      obligation_token_amount ==
        CollateralToObligationTokenAmount(ob, BigToNat(collateral_withdraw_amount.value), obligation_token_supply)
      liquidated ==
        ObligationLiquidate(ob, decimal_repay_amount, BigToNat(collateral_withdraw_amount.value))
  IN  IF integer_repay_amount.result # Ok
      THEN [result |-> integer_repay_amount.result, obligation |-> ob]
      ELSE IF integer_repay_amount.value = <<>>
      THEN [result |-> "ObligationEmpty", obligation |-> ob]
      ELSE IF repay_pct.result # Ok THEN [result |-> repay_pct.result, obligation |-> ob]
      ELSE IF withdraw_amount.result # Ok
      THEN [result |-> withdraw_amount.result, obligation |-> ob]
      ELSE IF collateral_withdraw_amount.result # Ok
      THEN [result |-> collateral_withdraw_amount.result, obligation |-> ob]
      ELSE IF obligation_token_amount.result # Ok
      THEN [result |-> obligation_token_amount.result, obligation |-> ob]
      ELSE IF liquidated.result # Ok THEN liquidated
      ELSE [result |-> Ok,
            obligation |-> liquidated.obligation,
            repay_result |->
              [collateral_withdraw_amount |-> BigToNat(collateral_withdraw_amount.value),
               obligation_token_amount |-> BigToNat(obligation_token_amount.value),
               decimal_repay_amount |-> decimal_repay_amount,
               integer_repay_amount |-> integer_repay_amount.value]]

AccrueInterest(cumulative_borrow_rate) ==
  /\ obligation_calls < MaxCalls
  /\ obligation' = ObligationAccrueInterest(obligation, cumulative_borrow_rate).obligation
  /\ obligation_result' = ObligationAccrueInterest(obligation, cumulative_borrow_rate).result
  /\ obligation_calls' = obligation_calls + 1
  /\ UNCHANGED <<realm_vars, ledger_vars>>

Liquidate(repay_amount, withdraw_amount) ==
  /\ obligation_calls < MaxCalls
  /\ obligation' = ObligationLiquidate(obligation, repay_amount, withdraw_amount).obligation
  /\ obligation_result' = ObligationLiquidate(obligation, repay_amount, withdraw_amount).result
  /\ obligation_calls' = obligation_calls + 1
  /\ UNCHANGED <<realm_vars, ledger_vars>>

Repay(liquidity_amount, obligation_token_supply) ==
  /\ obligation_calls < MaxCalls
  /\ obligation' = ObligationRepay(obligation, liquidity_amount, obligation_token_supply).obligation
  /\ obligation_result' = ObligationRepay(obligation, liquidity_amount, obligation_token_supply).result
  /\ obligation_calls' = obligation_calls + 1
  /\ UNCHANGED <<realm_vars, ledger_vars>>

ObligationNext ==
  \/ \E rate \in NewRates : AccrueInterest(rate)
  \/ \E repay_amount \in RepayAmounts, withdraw_amount \in WithdrawAmounts :
       Liquidate(repay_amount, withdraw_amount)
  \/ \E liquidity_amount \in LiquidityAmounts, supply \in ObligationTokenSupplies :
       Repay(liquidity_amount, supply)

\* The obligation is taken with any stored rate, loan and collateral
ObligationInit ==
  /\ LedgerInit
  /\ governance.vote_threshold = 60
  /\ obligation \in [deposited_collateral_tokens : Collaterals,
                     cumulative_borrow_rate_wads : StoredRates,
                     borrowed_liquidity_wads : BorrowedAmounts]
  /\ obligation_result = Ok
  /\ obligation_calls = 0

ObligationSpec == ObligationInit /\ [][ObligationNext]_vars

(***************************************************************************)
(* Properties                                                              *)
(***************************************************************************)
\* A well-formed call: every account, authority and record address passed is
\* the one the proposal names.
VoteStep(voter, vote) == Vote(voter, vote, TRUE, TRUE, TRUE)

\* The undecided quantity the handler works out for `vote` in this state
RemainingAfter(vote) ==
  NowRemainingInNoColumn(mint_supply.source, YesVoteAmount(vote), mint_supply.yes)

\* The tip condition in exact arithmetic
ExactTip(remaining, total, vote_threshold) ==
  remaining = 0 \/ (total - remaining) * 100 >= vote_threshold * total

LifecycleEdges ==
  {<<"Draft", "Voting">>, <<"Voting", "Executing">>, <<"Voting", "Defeated">>,
   <<"Executing", "Completed">>, <<"Draft", "Cancelled">>,
   <<"Draft", "Deleted">>, <<"Voting", "Deleted">>}

\* C1: the status changes only along the lifecycle edges Draft->Voting,
\* Voting->Executing, Voting->Defeated, Executing->Completed, Draft->Cancelled
\* (and Draft/Voting->Deleted); a Completed, Defeated, Cancelled or Deleted
\* proposal never changes status again.
StatusFollowsLifecycle ==
  [][proposal_state'.status # proposal_state.status
       => <<proposal_state.status, proposal_state'.status>> \in LifecycleEdges]_vars

\* C2: a successful Vote sets the status to Executing and voting_ended_at to
\* the current slot if and only if, counting this vote, nothing remains
\* undecided or the decided share, in exact arithmetic, is at least
\* vote_threshold percent: a share exactly equal to the threshold tips.
VoteTipsAtExactShare ==
  [][\A v \in Voters, vote \in Votes :
       VoteStep(v, vote) =>
         ((proposal_state'.status = "Executing" /\ proposal_state'.voting_ended_at = slot)
            <=> ExactTip(RemainingAfter(vote), mint_supply.source,
                         governance.vote_threshold))]_vars

\* C3, as the specification states it: the undecided quantity of the tip
\* condition is the total minus the cumulative yes supply minus the cumulative
\* no supply, both counting the current vote.
TipCountsYesAndNoVotes ==
  [][\A v \in Voters, vote \in Votes :
       VoteStep(v, vote) =>
         (proposal_state'.status = "Executing"
            <=> Tipped(mint_supply.source - mint_supply'.yes - mint_supply'.no,
                       mint_supply.source, governance.vote_threshold))]_vars

\* C3, as the program behaves: the undecided quantity of the tip condition is
\* the total minus the cumulative yes supply counting the current vote; no
\* votes are not subtracted, they count as undecided.
TipCountsYesVotesOnly ==
  [][\A v \in Voters, vote \in Votes :
       VoteStep(v, vote) =>
         (proposal_state'.status = "Executing"
            <=> Tipped(mint_supply.source - mint_supply'.yes,
                       mint_supply.source, governance.vote_threshold))]_vars

\* Two no votes of five (40 percent cast, threshold 20) and the vote is open
NoVotesLeaveVoteOpen ==
  /\ proposal_state.status = "Voting"
  /\ governance.vote_threshold = 20
  /\ mint_supply.no = 2
  /\ mint_supply.yes = 0

\* C4, as the specification states it: whenever the status is Executing or
\* Completed, the cumulative yes supply reached the threshold
\* (yes_supply * 100 >= vote_threshold * total) or nothing remained undecided;
\* and a proposal never enters Executing on the strength of No votes: the
\* step that brings it to Executing adds to the yes supply.
ExecutingOnlyByYesVotes ==
  /\ [](proposal_state.status \in {"Executing", "Completed"} =>
          \/ mint_supply.yes * 100 >= governance.vote_threshold * mint_supply.source
          \/ mint_supply.yes = mint_supply.source)
  /\ [][(proposal_state.status # "Executing" /\ proposal_state'.status = "Executing") =>
          mint_supply'.yes > mint_supply.yes]_vars

\* C4, as the program behaves: whenever the status is Executing or Completed,
\* the cumulative yes supply reached the threshold or nothing remained
\* undecided; with a vote_threshold of at least 1 the step that brings a
\* proposal to Executing adds to the yes supply and the yes supply is at
\* least 1 from then on; with a vote_threshold of 0 the inequality holds of
\* any supplies and a No vote brings the proposal to Executing as well.
YesReachedThreshold ==
  /\ [](proposal_state.status \in {"Executing", "Completed"} =>
          /\ \/ mint_supply.yes * 100 >= governance.vote_threshold * mint_supply.source
             \/ mint_supply.yes = mint_supply.source
          /\ governance.vote_threshold >= 1 => mint_supply.yes >= 1)
  /\ [][(proposal_state.status # "Executing" /\ proposal_state'.status = "Executing") =>
          \/ mint_supply'.yes > mint_supply.yes
          \/ governance.vote_threshold = 0 /\ mint_supply'.no > mint_supply.no]_vars

\* Tipped at 60 percent by three yes votes of five
TippedByYesVotes ==
  /\ proposal_state.status = "Executing"
  /\ governance.vote_threshold = 60
  /\ mint_supply.yes = 3

\* C5: a successful Vote that does not tip sets the status to Defeated and
\* voting_ended_at to the current slot if and only if
\* slot - voting_began_at > time_limit (strictly); a Vote that tips past the
\* deadline gives Executing; a Vote that neither tips nor is past the deadline
\* leaves status and voting_ended_at unchanged.
VoteTimeoutDefeats ==
  [][\A v \in Voters, vote \in Votes :
       VoteStep(v, vote) =>
         LET tipped  == Tipped(RemainingAfter(vote), mint_supply.source,
                               governance.vote_threshold)
             elapsed == slot - proposal_state.voting_began_at
         IN  /\ ~tipped =>
                  ((proposal_state'.status = "Defeated"
                      /\ proposal_state'.voting_ended_at = slot)
                     <=> elapsed > governance.time_limit)
             /\ (tipped /\ elapsed > governance.time_limit) =>
                  proposal_state'.status = "Executing"
             /\ (~tipped /\ elapsed <= governance.time_limit) =>
                  /\ proposal_state'.status = proposal_state.status
                  /\ proposal_state'.voting_ended_at = proposal_state.voting_ended_at]_vars

\* Defeated by a vote cast one slot past the deadline
DefeatedPastDeadline ==
  /\ proposal_state.status = "Defeated"
  /\ proposal_state.voting_ended_at - proposal_state.voting_began_at
       = governance.time_limit + 1

\* C6: Vote succeeds only while the status is Voting; in every other status
\* a well-formed Vote fails with InvalidTimelockSetStateError, so that once the
\* status is Executing or Defeated no Vote changes status or voting_ended_at.
VoteOnlyWhileVoting ==
  \A v \in Voters, vote \in Votes, authority_ok \in BOOLEAN, record_ok \in BOOLEAN :
    proposal_state.status # "Voting" =>
      VoteResult(v, vote, TRUE, authority_ok, record_ok) = "InvalidTimelockSetStateError"

\* A holder of voting tokens is turned away from a defeated proposal
VoteRefusedWhenDefeated ==
  /\ proposal_state.status = "Defeated"
  /\ \E v \in Voters :
       /\ voting_acct[v] >= 1
       /\ VoteResult(v, [kind |-> "No", amount |-> 1], TRUE, TRUE, TRUE)
            = "InvalidTimelockSetStateError"

\* C7, as the specification states it: once the status is Executing or
\* Defeated a later Vote by a holder of voting tokens is still accepted.
LateVoteAccepted ==
  proposal_state.status \in {"Executing", "Defeated"} =>
    \A v \in Voters :
      voting_acct[v] >= 1 =>
        VoteResult(v, [kind |-> "Yes", amount |-> 1], TRUE, TRUE, TRUE) = Ok

\* C7, as the program behaves: once the status is Executing or Defeated a
\* later Vote is rejected; no voting token is burned by a vote and no yes or
\* no token is minted any more, and voting_ended_at stays as it is.
LateVoteRejected ==
  [][proposal_state.status \in {"Executing", "Defeated"} =>
       /\ \A v \in Voters, vote \in Votes : ~VoteStep(v, vote)
       /\ mint_supply'.yes = mint_supply.yes
       /\ mint_supply'.no = mint_supply.no
       /\ proposal_state'.voting_ended_at = proposal_state.voting_ended_at]_vars

\* After the vote has tipped a voter still holds voting tokens that can no longer be cast
LateVoterHoldsTokens ==
  /\ proposal_state.status = "Executing"
  /\ \E v \in Voters :
       /\ voting_acct[v] >= 1
       /\ VoteResult(v, [kind |-> "Yes", amount |-> 1], TRUE, TRUE, TRUE) # Ok

\* C8: in status Executing, Execute of a queued transaction fails as not yet
\* eligible while slot < voting_ended_at + delay_slots, and from then on
\* succeeds exactly once: the successful Execute sets its executed flag, the
\* flag stays set, and every later Execute of it is rejected.
ExecuteOnceWhenDue ==
  /\ [](\A k \in TxnAccounts :
          (proposal_state.status = "Executing" /\ k \in QueuedTransactions(proposal_state)) =>
            LET due == slot >= proposal_state.voting_ended_at
                                 + transaction_accts[k].delay_slots
            IN  /\ ~due => ExecuteResult(k, TRUE) = "TooEarlyToExecute"
                /\ (due /\ transaction_accts[k].executed = 0) => ExecuteResult(k, TRUE) = Ok
                /\ transaction_accts[k].executed = 1 =>
                     ExecuteResult(k, TRUE) = "TransactionAlreadyExecuted")
  /\ [][\A k \in TxnAccounts :
          /\ Execute(k, TRUE) =>
               transaction_accts[k].executed = 0 /\ transaction_accts'[k].executed = 1
          /\ transaction_accts[k].executed = 1 => transaction_accts'[k].executed = 1]_vars

\* One queued transaction is executed and refused a second time while another
\* one is still waiting
SecondExecuteRefused ==
  /\ proposal_state.status = "Executing"
  /\ \E k \in QueuedTransactions(proposal_state) :
       /\ transaction_accts[k].executed = 1
       /\ ExecuteResult(k, TRUE) = "TransactionAlreadyExecuted"

\* Every queued transaction is executed
AllExecuted(state, accounts) ==
  \A k \in QueuedTransactions(state) : accounts[k].executed = 1

\* C9, as the specification states it: Execute succeeds only in status
\* Executing; each successful Execute adds exactly one to
\* number_of_executed_transactions; the status is Completed exactly when every
\* queued transaction has been executed, so a proposal is never left in
\* Executing with all of its queued transactions executed.
CompletedExactlyWhenAllExecuted ==
  /\ [](\A k \in TxnAccounts, invoke_ok \in BOOLEAN :
          ExecuteResult(k, invoke_ok) = Ok => proposal_state.status = "Executing")
  /\ [](proposal_state.status \in {"Executing", "Completed"} =>
          (proposal_state.status = "Completed"
             <=> AllExecuted(proposal_state, transaction_accts)))
  /\ [][\A k \in TxnAccounts :
          Execute(k, TRUE) =>
            proposal_state'.number_of_executed_transactions
              = proposal_state.number_of_executed_transactions + 1]_vars

\* C9, as the program behaves: Execute succeeds only in status Executing; each
\* successful Execute adds exactly one to number_of_executed_transactions and
\* nothing else changes the count; the status becomes Completed only by a
\* successful Execute, exactly when after it every queued transaction is
\* executed; so a Completed proposal has every queued transaction executed,
\* and a proposal is left in Executing with all of its queued transactions
\* executed only if its transactions array was empty when the vote ended and
\* no Execute has succeeded since.
ExecuteCompletes ==
  /\ [](\A k \in TxnAccounts, invoke_ok \in BOOLEAN :
          /\ ExecuteResult(k, invoke_ok) = Ok => proposal_state.status = "Executing"
          /\ proposal_state.status # "Executing" =>
               ExecuteResult(k, invoke_ok) = "InvalidTimelockSetStateError")
  /\ [](proposal_state.status = "Completed" =>
          AllExecuted(proposal_state, transaction_accts))
  /\ [](proposal_state.status = "Executing" =>
          \/ ~AllExecuted(proposal_state, transaction_accts)
          \/ /\ QueuedTransactions(proposal_state) = {}
             /\ proposal_state.number_of_executed_transactions = 0)
  /\ [][/\ \A k \in TxnAccounts :
             Execute(k, TRUE) =>
               /\ proposal_state'.number_of_executed_transactions
                    = proposal_state.number_of_executed_transactions + 1
               /\ proposal_state'.status = "Completed"
                    <=> AllExecuted(proposal_state', transaction_accts')
        /\ (proposal_state'.status = "Completed" /\ proposal_state.status # "Completed")
             => \E k \in TxnAccounts : Execute(k, TRUE)
        /\ proposal_state'.number_of_executed_transactions
             # proposal_state.number_of_executed_transactions
             => \E k \in TxnAccounts : Execute(k, TRUE)]_vars

\* Both queued transactions executed: the proposal is Completed
CompletedAfterTwoExecutes ==
  /\ proposal_state.status = "Completed"
  /\ proposal_state.number_of_executed_transactions = 2
  /\ Cardinality(QueuedTransactions(proposal_state)) = 2

\* C10, as the specification states it: while any signatory token is
\* outstanding the proposal stays in Draft.
DraftWhileSignatoryOutstanding ==
  mint_supply.signatory > 0 => proposal_state.status = "Draft"

\* C10, as the program behaves: SignProposal succeeds only in Draft and burns
\* one signatory token of the caller; the status becomes Voting, with
\* voting_began_at the current slot, exactly on the SignProposal whose burn
\* empties the signatory mint; while a signatory token is outstanding the
\* proposal never enters Voting: it stays in Draft unless it is cancelled.
SignStartsVoting ==
  /\ [](\A s \in Parties, authority_ok \in BOOLEAN :
          SignProposalResult(s, authority_ok) = Ok => proposal_state.status = "Draft")
  /\ [](mint_supply.signatory > 0 => proposal_state.status \in {"Draft", "Cancelled"})
  /\ [][/\ \A s \in Parties :
             SignProposal(s, TRUE) =>
               /\ signatory_acct'[s] = signatory_acct[s] - 1
               /\ mint_supply'.signatory = mint_supply.signatory - 1
               /\ (proposal_state'.status = "Voting"
                     /\ proposal_state'.voting_began_at = slot)
                    <=> mint_supply'.signatory = 0
               /\ mint_supply'.signatory > 0 =>
                    /\ proposal_state'.status = "Draft"
                    /\ proposal_state'.voting_began_at = proposal_state.voting_began_at
        /\ (proposal_state'.status = "Voting" /\ proposal_state.status # "Voting")
             => \E s \in Parties : SignProposal(s, TRUE)]_vars

\* The second of two signatories signs at slot 1 and the vote begins
VotingBeganOnLastSignature ==
  /\ proposal_state.status = "Voting"
  /\ proposal_state.voting_began_at = 1
  /\ mint_supply.signatory = 0
  /\ \A p \in Parties : signatory_acct[p] = 0

\* C11: total_signing_tokens_minted is zero exactly when the supply of the
\* signatory mint is zero (it mirrors the supply), and a SignProposal moves
\* the proposal from Draft to Voting exactly when it leaves both at zero.
\* SignProposal burns the caller's token and counts nothing down, so the
\* count stays above a supply that signatures have emptied.
SigningTokensMirrorSupply ==
  /\ [](/\ proposal_state.total_signing_tokens_minted = mint_supply.signatory
        /\ proposal_state.total_signing_tokens_minted = 0 <=> mint_supply.signatory = 0)
  /\ [][\A s \in Parties :
          SignProposal(s, TRUE) =>
            /\ (proposal_state.status = "Draft" /\ proposal_state'.status = "Voting")
                 <=> proposal_state'.total_signing_tokens_minted = 0
            /\ proposal_state'.total_signing_tokens_minted = 0
                 <=> mint_supply'.signatory = 0]_vars

\* The sum of f over the voters in S
RECURSIVE SumCounts(_, _)
SumCounts(S, f) ==
  IF S = {} THEN 0
  ELSE LET v == CHOOSE x \in S : TRUE
       IN  f[v] + SumCounts(S \ {v}, f)

SumYesCount(records) == SumCounts(Voters, [v \in Voters |-> records[v].yes_count])

SumNoCount(records) == SumCounts(Voters, [v \in Voters |-> records[v].no_count])

\* C12, as the specification states it: after every Vote the yes_count of all
\* vote records plus their no_count plus the undecided quantity the Vote worked
\* out make the total that ever existed.
RecordsAndUndecidedMakeTotal ==
  [][\A v \in Voters, vote \in Votes :
       VoteStep(v, vote) =>
         SumYesCount(voting_record') + SumNoCount(voting_record') + RemainingAfter(vote)
           = mint_supply.source]_vars

\* C12, as the program behaves: after every Vote the yes_count of all vote
\* records plus the undecided quantity the Vote worked out make the total that
\* ever existed; the no_count of all records makes the no supply, which is part
\* of the undecided quantity and not added to it.
YesRecordsAndUndecidedMakeTotal ==
  [][\A v \in Voters, vote \in Votes :
       VoteStep(v, vote) =>
         /\ SumYesCount(voting_record') + RemainingAfter(vote) = mint_supply.source
         /\ SumYesCount(voting_record') = mint_supply'.yes
         /\ SumNoCount(voting_record') = mint_supply'.no
         /\ SumNoCount(voting_record') <= RemainingAfter(vote)]_vars

\* One voter has voted yes and the other no, and the vote is open
YesAndNoRecorded ==
  /\ proposal_state.status = "Voting"
  /\ voting_record[1].yes_count = 1
  /\ voting_record[2].no_count = 1

\* C13: the supply of the voting mint is the undecided voting power the
\* voters hold; the yes and no supplies never decrease, grow only by a Vote and
\* then by exactly the amount cast, and so equal the yes and no amounts cast so
\* far (the evidence tokens held by the voters or moved to the dump accounts).
SuppliesMirrorVotes ==
  /\ [](/\ mint_supply.voting = SumCounts(Voters, voting_acct)
        /\ mint_supply.yes = SumCounts(Voters, yes_acct) + dump.yes
        /\ mint_supply.no = SumCounts(Voters, no_acct) + dump.no
        /\ mint_supply.yes = SumYesCount(voting_record)
        /\ mint_supply.no = SumNoCount(voting_record))
  /\ [][/\ mint_supply'.yes >= mint_supply.yes
        /\ mint_supply'.no >= mint_supply.no
        /\ \A v \in Voters, vote \in Votes :
             VoteStep(v, vote) =>
               /\ mint_supply'.yes
                    = mint_supply.yes + (IF vote.kind = "Yes" THEN vote.amount ELSE 0)
               /\ mint_supply'.no
                    = mint_supply.no + (IF vote.kind = "No" THEN vote.amount ELSE 0)
        /\ (mint_supply'.yes # mint_supply.yes \/ mint_supply'.no # mint_supply.no)
             => \E v \in Voters, vote \in Votes : VoteStep(v, vote)]_vars

\* Two yes votes were cast, one of the yes tokens was handed in on withdrawal
\* after the vote, and another voter still holds an undecided token
YesTokenDumpedAfterVote ==
  /\ mint_supply.yes = 2
  /\ dump.yes = 1
  /\ mint_supply.voting = 1

\* C14: a successful Vote of amount a takes exactly a from the caller's
\* voting balance and from the voting supply and adds exactly a to the caller's
\* yes (or no) balance and to the yes (or no) supply, leaving the other column
\* and the other voters alone; a Vote for more than the caller's voting balance
\* fails and changes nothing.  On a proposal in Voting the error is
\* TokenBurnFailed, unless the yes amount together with the
\* yes supply exceeds the source supply: then the checked subtraction before
\* the burn fails first.
VoteMovesExactAmount ==
  /\ [](\A v \in Voters, vote \in Votes :
          voting_acct[v] < vote.amount =>
            /\ \A accounts_ok \in BOOLEAN, authority_ok \in BOOLEAN, record_ok \in BOOLEAN :
                 VoteResult(v, vote, accounts_ok, authority_ok, record_ok) # Ok
            /\ proposal_state.status = "Voting" =>
                 VoteResult(v, vote, TRUE, TRUE, TRUE) =
                   IF YesVoteAmount(vote) + mint_supply.yes > mint_supply.source
                   THEN "NumericalOverflow"
                   ELSE "TokenBurnFailed")
  /\ [][\A v \in Voters, vote \in Votes :
          /\ voting_acct[v] < vote.amount => ~VoteStep(v, vote)
          /\ VoteStep(v, vote) =>
               LET a   == vote.amount
                   yes == IF vote.kind = "Yes" THEN a ELSE 0
                   no  == IF vote.kind = "No" THEN a ELSE 0
               IN  /\ voting_acct'[v] = voting_acct[v] - a
                   /\ mint_supply'.voting = mint_supply.voting - a
                   /\ yes_acct'[v] = yes_acct[v] + yes
                   /\ mint_supply'.yes = mint_supply.yes + yes
                   /\ no_acct'[v] = no_acct[v] + no
                   /\ mint_supply'.no = mint_supply.no + no
                   /\ \A w \in Voters \ {v} :
                        /\ voting_acct'[w] = voting_acct[w]
                        /\ yes_acct'[w] = yes_acct[w]
                        /\ no_acct'[w] = no_acct[w]]_vars

\* A voter who has cast one of two voting tokens asks to cast two more
VoteAboveBalanceRefused ==
  /\ proposal_state.status = "Voting"
  /\ yes_acct[1] = 1
  /\ voting_acct[1] = 1
  /\ VoteResult(1, [kind |-> "Yes", amount |-> 2], TRUE, TRUE, TRUE)
       = "TokenBurnFailed"

\* The mint supplies once `vote` is added to the supplies `supply`
SuppliesAfter(supply, vote) ==
  [supply EXCEPT
     !.voting = @ - vote.amount,
     !.yes = @ + (IF vote.kind = "Yes" THEN vote.amount ELSE 0),
     !.no = @ + (IF vote.kind = "No" THEN vote.amount ELSE 0)]

\* C15, as the specification states it: of two votes by different voters
\* that the proposal would accept, the one serialized second is accepted too,
\* whichever goes first.
SecondVoteAlwaysAccepted ==
  [][\A v1 \in Voters, v2 \in Voters, vote1 \in Votes, vote2 \in Votes :
       (v1 # v2 /\ VoteStep(v1, vote1) /\ VoteResult(v2, vote2, TRUE, TRUE, TRUE) = Ok)
         => (VoteResult(v2, vote2, TRUE, TRUE, TRUE) = Ok)']_vars

\* C15, as the program behaves: each Vote is applied to the supplies as the
\* vote before it left them (nothing is lost, and the result of two votes does
\* not depend on their order); the vote serialized second is accepted and
\* reflected as well provided the first one did not end the voting, and is
\* rejected with InvalidTimelockSetStateError if the first one tipped the
\* proposal or ran into the deadline.
SecondVoteAcceptedWhileOpen ==
  [][\A v1 \in Voters, v2 \in Voters, vote1 \in Votes, vote2 \in Votes :
       (v1 # v2 /\ VoteStep(v1, vote1) /\ VoteResult(v2, vote2, TRUE, TRUE, TRUE) = Ok)
         => /\ mint_supply' = SuppliesAfter(mint_supply, vote1)
            /\ voting_acct'[v2] = voting_acct[v2]
            /\ SuppliesAfter(SuppliesAfter(mint_supply, vote1), vote2)
                 = SuppliesAfter(SuppliesAfter(mint_supply, vote2), vote1)
            /\ SuppliesAfter(mint_supply', vote2).voting
                 = mint_supply.voting - (vote1.amount + vote2.amount)
            /\ proposal_state'.status = "Voting"
                 => (VoteResult(v2, vote2, TRUE, TRUE, TRUE) = Ok)'
            /\ proposal_state'.status # "Voting"
                 => (VoteResult(v2, vote2, TRUE, TRUE, TRUE)
                       = "InvalidTimelockSetStateError")']_vars

\* Both voters have voted, one yes and one no, and all three supplies show it
BothVotesInSupplies ==
  /\ proposal_state.status = "Voting"
  /\ yes_acct[1] = 1
  /\ no_acct[2] = 1
  /\ mint_supply.yes = 1
  /\ mint_supply.no = 1
  /\ mint_supply.voting = 1

\* The records, supplies and balances an instruction in flight has not written
OutsideVoteAccounts ==
  <<governance, proposal, slot, transaction_accts, signatory_acct, admin_acct, source_acct,
    holding, dump, voting_record, realm_vars, lending_vars>>

CancelBlocksVoteAndExecute ==
  /\ [](\A a \in Parties, accounts_ok \in BOOLEAN, authority_ok \in BOOLEAN :
          /\ CancelProposalResult(a, accounts_ok, authority_ok) = Ok =>
               /\ admin_acct[a] >= 1
               /\ proposal_state.status \notin {"Voting", "Executing"}
          /\ proposal_state.status \in {"Voting", "Executing"} =>
               CancelProposalResult(a, TRUE, authority_ok) = "InvalidTimelockSetStateError")
  /\ [](proposal_state.status = "Cancelled" =>
          /\ \A v \in Voters, vote \in Votes, accounts_ok \in BOOLEAN,
                authority_ok \in BOOLEAN, record_ok \in BOOLEAN :
               VoteResult(v, vote, accounts_ok, authority_ok, record_ok) # Ok
          /\ \A k \in TxnAccounts, invoke_ok \in BOOLEAN : ExecuteResult(k, invoke_ok) # Ok)
  /\ [][/\ \A a \in Parties :
             CancelProposal(a, TRUE, TRUE) =>
               /\ proposal_state.status \notin {"Voting", "Executing"}
               /\ proposal_state'.status = "Cancelled"
        /\ proposal_state.status = "Cancelled" => proposal_state'.status = "Cancelled"
        /\ (proposal_state'.status = "Cancelled" /\ proposal_state.status # "Cancelled")
             => \E a \in Parties : CancelProposal(a, TRUE, TRUE)]_vars

\* A cancelled proposal with a transaction queued and a voter holding a
\* voting token
CancelledWithVoterAndQueue ==
  /\ proposal_state.status = "Cancelled"
  /\ QueuedTransactions(proposal_state) # {}
  /\ voting_acct[1] >= 1
  /\ VoteResult(1, [kind |-> "Yes", amount |-> 1], TRUE, TRUE, TRUE)
       = "InvalidTimelockSetStateError"

\* C18: AddSignatory, RemoveSignatory, AddCustomSingleSignerTransaction,
\* RemoveTransaction and UpdateTransactionDelaySlots succeed only in Draft;
\* once the proposal has left Draft no step changes the transactions array,
\* number_of_transactions, total_signing_tokens_minted, or the delay_slots or
\* the instruction of a queued transaction.
QueueFrozenAfterDraft ==
  /\ [](proposal_state.status # "Draft" =>
          /\ \A a \in Parties, authority_ok \in BOOLEAN :
               AddSignatoryResult(a, authority_ok) # Ok
          /\ \A a \in Parties, s \in Parties, accounts_ok \in BOOLEAN, authority_ok \in BOOLEAN :
               RemoveSignatoryResult(a, s, accounts_ok, authority_ok) # Ok
          /\ \A s \in Parties, k \in TxnAccounts, d \in Delays, p \in Positions,
                e \in EndIndexes :
               AddCustomSingleSignerTransactionResult(s, k, d, p, e, TRUE, TRUE) # Ok
          /\ \A s \in Parties, k \in TxnAccounts, accounts_ok \in BOOLEAN,
                authority_ok \in BOOLEAN :
               /\ RemoveTransactionResult(s, k, accounts_ok, authority_ok) # Ok
               /\ \A d \in Delays :
                    UpdateTransactionDelaySlotsResult(s, k, d, accounts_ok, authority_ok) # Ok)
  /\ [][proposal_state.status # "Draft" =>
          /\ proposal_state'.transactions = proposal_state.transactions
          /\ proposal_state'.number_of_transactions = proposal_state.number_of_transactions
          /\ proposal_state'.total_signing_tokens_minted
               = proposal_state.total_signing_tokens_minted
          /\ \A k \in QueuedTransactions(proposal_state) :
               /\ transaction_accts'[k].delay_slots = transaction_accts[k].delay_slots
               /\ transaction_accts'[k].instruction = transaction_accts[k].instruction
               /\ transaction_accts'[k].instruction_end_index
                    = transaction_accts[k].instruction_end_index]_vars

\* A transaction whose delay was rewritten to zero in Draft is queued in a
\* proposal that is being executed
UpdatedDelayKeptInExecuting ==
  /\ proposal_state.status = "Executing"
  /\ \E k \in QueuedTransactions(proposal_state) :
       /\ transaction_accts[k].delay_slots = 0
       /\ UpdateTransactionDelaySlotsResult(1, k, 1, TRUE, TRUE) = "InvalidTimelockSetStateError"

\* C19: AddCustomSingleSignerTransaction with position >= MAX_TRANSACTIONS
\* (valid positions are 0 to 4) fails, with TooHighPositionInTxnArrayError when
\* the transaction account passed is a fresh one, and leaves
\* number_of_transactions, the transactions array and the transaction account
\* as they were.
PositionAboveCapacityRejected ==
  /\ [](\A s \in Parties, k \in TxnAccounts, d \in Delays, p \in Positions, e \in EndIndexes,
           accounts_ok \in BOOLEAN, authority_ok \in BOOLEAN :
          p >= MAX_TRANSACTIONS =>
            LET result == AddCustomSingleSignerTransactionResult(s, k, d, p, e, accounts_ok,
                                                                 authority_ok)
            IN  /\ result # Ok
                /\ ~transaction_accts[k].initialized
                     => result = "TooHighPositionInTxnArrayError")
  /\ [][\A s \in Parties, k \in TxnAccounts, d \in Delays, p \in Positions, e \in EndIndexes :
          AddCustomSingleSignerTransaction(s, k, d, p, e, TRUE, TRUE) =>
            /\ p \in 0..(MAX_TRANSACTIONS - 1)
            /\ proposal_state'.transactions[p] = k
            /\ proposal_state'.number_of_transactions
                 = proposal_state.number_of_transactions + 1]_vars

\* A draft with a transaction queued at the last valid position refuses
\* another one at position MAX_TRANSACTIONS
LastPositionFilledNextRefused ==
  /\ proposal_state.status = "Draft"
  /\ proposal_state.transactions[MAX_TRANSACTIONS - 1] = 1
  /\ proposal_state.number_of_transactions = 1
  /\ AddCustomSingleSignerTransactionResult(1, 2, MinHoldUp, MAX_TRANSACTIONS,
                                            INSTRUCTION_LIMIT - 1, TRUE, TRUE)
       = "TooHighPositionInTxnArrayError"

\* C20: AddCustomSingleSignerTransaction is rejected, and writes nothing,
\* when delay_slots is below the governance's minimum waiting period (with
\* MustBeAboveMinimumWaitingPeriod in a call that is otherwise in order) and is
\* not rejected on that ground when delay_slots equals the minimum; it is
\* rejected when instruction_end_index >= INSTRUCTION_LIMIT (with
\* InvalidInstructionEndIndex for a fresh transaction account and a valid
\* position).
DelayAndEndIndexChecked ==
  /\ [](\A s \in Parties, k \in TxnAccounts, d \in Delays, p \in Positions, e \in EndIndexes,
           accounts_ok \in BOOLEAN, authority_ok \in BOOLEAN :
          LET result == AddCustomSingleSignerTransactionResult(s, k, d, p, e, accounts_ok,
                                                               authority_ok)
              in_order == /\ ~transaction_accts[k].initialized
                          /\ p < MAX_TRANSACTIONS
                          /\ e < INSTRUCTION_LIMIT
                          /\ accounts_ok /\ authority_ok
                          /\ proposal_state.status = "Draft"
                          /\ signatory_acct[s] >= 1
          IN  /\ d < governance.minimum_slot_waiting_period =>
                   /\ result # Ok
                   /\ in_order => result = "MustBeAboveMinimumWaitingPeriod"
              /\ d >= governance.minimum_slot_waiting_period =>
                   /\ result # "MustBeAboveMinimumWaitingPeriod"
                   /\ in_order => result = Ok
              /\ e >= INSTRUCTION_LIMIT =>
                   /\ result # Ok
                   /\ (~transaction_accts[k].initialized /\ p < MAX_TRANSACTIONS)
                        => result = "InvalidInstructionEndIndex")
  /\ [][\A s \in Parties, k \in TxnAccounts, d \in Delays, p \in Positions, e \in EndIndexes :
          AddCustomSingleSignerTransaction(s, k, d, p, e, TRUE, TRUE) =>
            /\ d >= governance.minimum_slot_waiting_period
            /\ e < INSTRUCTION_LIMIT
            /\ transaction_accts'[k].delay_slots = d
            /\ transaction_accts'[k].instruction_end_index = e]_vars

\* A transaction is queued with exactly the minimum delay and the largest end
\* index; one with a shorter delay is refused
MinimumDelayQueuedShorterRefused ==
  /\ proposal_state.status = "Draft"
  /\ transaction_accts[1].initialized
  /\ transaction_accts[1].delay_slots = governance.minimum_slot_waiting_period
  /\ transaction_accts[1].instruction_end_index = INSTRUCTION_LIMIT - 1
  /\ AddCustomSingleSignerTransactionResult(1, 2, MinHoldUp - 1, 0, INSTRUCTION_LIMIT - 1,
                                            TRUE, TRUE)
       = "MustBeAboveMinimumWaitingPeriod"

\* C21: a successful AddCustomSingleSignerTransaction(delay_slots d, position
\* p, instruction_end_index e) is made on a fresh transaction account T, and
\* reading T back from its packed bytes gives delay_slots = d and
\* instruction_end_index = e; transactions[p] is T, number_of_transactions has
\* grown by exactly one and every other slot of the array is as it was.
AddThenReadBack ==
  [][\A s \in Parties, k \in TxnAccounts, d \in Delays, p \in Positions, e \in EndIndexes :
       AddCustomSingleSignerTransaction(s, k, d, p, e, TRUE, TRUE) =>
         /\ ~transaction_accts[k].initialized
         /\ transaction_accts'[k] = UnpackTransaction(PackTransaction(transaction_accts'[k]))
         /\ transaction_accts'[k].initialized
         /\ transaction_accts'[k].delay_slots = d
         /\ transaction_accts'[k].instruction_end_index = e
         /\ transaction_accts'[k].executed = 0
         /\ proposal_state'.transactions[p] = k
         /\ proposal_state'.number_of_transactions
              = proposal_state.number_of_transactions + 1
         /\ \A n \in 0..(MAX_TRANSACTIONS - 1) :
              n # p => proposal_state'.transactions[n] = proposal_state.transactions[n]
         /\ \A other \in TxnAccounts \ {k} :
              transaction_accts'[other] = transaction_accts[other]]_vars

\* Transaction 2 was queued at the last position, with the largest end index,
\* after transaction 1 at position 0
SecondTransactionReadBack ==
  /\ proposal_state.number_of_transactions = 2
  /\ proposal_state.transactions[0] = 1
  /\ proposal_state.transactions[MAX_TRANSACTIONS - 1] = 2
  /\ transaction_accts[2].delay_slots = MinHoldUp
  /\ transaction_accts[2].instruction_end_index = INSTRUCTION_LIMIT - 1

\* C22: RemoveTransaction of a transaction T whose key is in no slot of the
\* array is rejected (with TimelockTransactionNotFoundError when the call is
\* otherwise in order); an accepted RemoveTransaction finds T in exactly one
\* slot, sets that slot to the zero key and leaves every other slot where it
\* is, without compaction, and a lookup of T afterwards reports not found.
RemoveZeroesOneSlot ==
  /\ [](\A s \in Parties, k \in TxnAccounts, accounts_ok \in BOOLEAN, authority_ok \in BOOLEAN :
          (\A n \in 0..(MAX_TRANSACTIONS - 1) : proposal_state.transactions[n] # k) =>
            LET result == RemoveTransactionResult(s, k, accounts_ok, authority_ok)
            IN  /\ result # Ok
                /\ (accounts_ok /\ authority_ok /\ proposal_state.status = "Draft"
                      /\ signatory_acct[s] >= 1)
                     => result = "TimelockTransactionNotFoundError")
  /\ [][\A s \in Parties, k \in TxnAccounts :
          RemoveTransaction(s, k, TRUE, TRUE) =>
            \E n \in 0..(MAX_TRANSACTIONS - 1) :
              /\ proposal_state.transactions[n] = k
              /\ proposal_state'.transactions[n] = ZeroKey
              /\ \A m \in 0..(MAX_TRANSACTIONS - 1) :
                   m # n => proposal_state'.transactions[m] = proposal_state.transactions[m]
              /\ AssertTxnInState(proposal_state', k) = "TimelockTransactionNotFoundError"
              /\ \A call \in Parties \X BOOLEAN \X BOOLEAN :
                   (RemoveTransactionResult(call[1], k, call[2], call[3]) # Ok)']_vars

\* Transaction 1 was removed from position 0 while transaction 2 stays at the
\* last position
RemovedBelowQueuedTransaction ==
  /\ proposal_state.status = "Draft"
  /\ proposal_state.number_of_transactions = 2
  /\ transaction_accts[1].initialized
  /\ proposal_state.transactions[0] = ZeroKey
  /\ proposal_state.transactions[MAX_TRANSACTIONS - 1] = 2
  /\ RemoveTransactionResult(1, 1, TRUE, TRUE) = "TimelockTransactionNotFoundError"

\* The balances of the signatory and admin token accounts
HolderBalances ==
  {signatory_acct[p] : p \in Parties} \cup {admin_acct[p] : p \in Parties}

\* C23, as the specification states it: the guard succeeds only if the holder
\* has a token of the validation account's mint, the transfer authority may
\* move it and the authority passed is the derived address; with another
\* authority it returns InvalidTimelockAuthority before any transfer; when it
\* succeeds the balances are those before the call, and when it fails no
\* balance has changed.
PermissionGuardChangesNoBalance ==
  \A balance \in HolderBalances, perm_account \in AccountKinds,
     validation_account \in AccountKinds, mint_ok \in BOOLEAN,
     transfer_authority_ok \in BOOLEAN, authority_ok \in BOOLEAN,
     validation_owner_ok \in BOOLEAN :
    \A check \in {PermissionCheck(balance, 0, perm_account, validation_account, mint_ok,
                                  transfer_authority_ok, authority_ok, validation_owner_ok)} :
    LET before  == [perm |-> balance, validation |-> 0]
        written == [perm |-> check.perm, validation |-> check.validation]
    IN  /\ check.result = Ok =>
             (balance >= 1 /\ mint_ok /\ transfer_authority_ok /\ authority_ok)
        /\ ~authority_ok =>
             (check.result = "InvalidTimelockAuthority" /\ written = before)
        /\ written = before

\* C23, as the program behaves: the guard succeeds exactly when both accounts
\* are initialized token accounts, the authority passed is the derived
\* address, the holder has a token of the validation account's mint, the
\* transfer authority may move it and the derived authority owns the
\* validation account.  An account that is not an initialized token account
\* is refused first (Uninitialized, InvalidAccountData); then another
\* authority is refused with InvalidTimelockAuthority; both before any
\* transfer.  When it succeeds the two balances are those before the call.
\* When the first transfer fails it returns TokenTransferFailed with no
\* balance changed; when the second fails it returns TokenTransferFailed with
\* the token in the validation account, so the balances are those before the
\* call only once the failed instruction is discarded.
PermissionGuardNetZero ==
  \A balance \in HolderBalances, perm_account \in AccountKinds,
     validation_account \in AccountKinds, mint_ok \in BOOLEAN,
     transfer_authority_ok \in BOOLEAN, authority_ok \in BOOLEAN,
     validation_owner_ok \in BOOLEAN :
    \A check \in {PermissionCheck(balance, 0, perm_account, validation_account, mint_ok,
                                  transfer_authority_ok, authority_ok, validation_owner_ok)} :
    LET before      == [perm |-> balance, validation |-> 0]
        written     == [perm |-> check.perm, validation |-> check.validation]
        initialized == perm_account = "Initialized" /\ validation_account = "Initialized"
        first_leg   == balance >= 1 /\ mint_ok /\ transfer_authority_ok
    IN  /\ check.result = Ok
             <=> (initialized /\ authority_ok /\ first_leg /\ validation_owner_ok)
        /\ ~initialized =>
             (check.result \in {"Uninitialized", "InvalidAccountData"} /\ written = before)
        /\ (initialized /\ ~authority_ok) =>
             (check.result = "InvalidTimelockAuthority" /\ written = before)
        /\ check.result = Ok => written = before
        /\ (initialized /\ authority_ok /\ ~first_leg) =>
             (check.result = "TokenTransferFailed" /\ written = before)
        /\ (initialized /\ authority_ok /\ first_leg /\ ~validation_owner_ok) =>
             /\ check.result = "TokenTransferFailed"
             /\ written = [perm |-> balance - 1, validation |-> 1]

\* The holder of the signatory token has queued a transaction; the other party
\* holds none and is refused, an account that is not initialized is refused
\* whatever the authority, and a validation account the derived authority
\* does not own fails the way back with the token already moved
GuardPassedAndRefused ==
  /\ proposal_state.status = "Draft"
  /\ proposal_state.number_of_transactions = 1
  /\ AssertIsPermissioned(signatory_acct[1], TRUE) = Ok
  /\ AssertIsPermissioned(signatory_acct[2], TRUE) = "TokenTransferFailed"
  /\ PermissionCheck(signatory_acct[1], 0, "Uninitialized", "Initialized", TRUE, TRUE,
                     FALSE, TRUE).result = "Uninitialized"
  /\ PermissionCheck(signatory_acct[1], 0, "Initialized", "Initialized", TRUE, TRUE,
                     TRUE, FALSE)
       = [result |-> "TokenTransferFailed", perm |-> 0, validation |-> 1]

\* C24: the deadline is looked at only by Vote.  While the status is Voting
\* no step but an accepted Vote changes it: not the clock, however far past
\* the deadline, and no other instruction; and an accepted Vote cast after the
\* deadline (slot - voting_began_at > time_limit) that does not tip sets the
\* status to Defeated and voting_ended_at to the current slot.
TimeoutOnlyByVote ==
  [][proposal_state.status = "Voting" =>
       ( /\ (proposal_state'.status = "Voting"
               \/ \E v \in Voters, vote \in Votes : VoteStep(v, vote))
         /\ (\A v \in Voters, vote \in Votes :
               (/\ slot - proposal_state.voting_began_at > governance.time_limit
                /\ VoteStep(v, vote)
                /\ ~Tipped(RemainingAfter(vote), mint_supply.source,
                           governance.vote_threshold))
                 => (/\ proposal_state'.status = "Defeated"
                     /\ proposal_state'.voting_ended_at = slot)) )]_vars

\* A vote that is open one slot past its deadline, after a no vote was cast in
\* time and the other voter has deposited
VotingPastDeadline ==
  /\ proposal_state.status = "Voting"
  /\ slot - proposal_state.voting_began_at = governance.time_limit + 1
  /\ no_acct[1] = 1
  /\ voting_acct[2] = 1

\* C25: WithdrawVotingTokens of an amount above the withdrawable total is
\* rejected, with TokenAmountAboveGivenAmount when the accounts and the
\* authority are the proposal's.  The withdrawable total is the caller's
\* undecided voting balance while the status is Voting (the yes and no tokens
\* of votes already cast cannot be withdrawn then) and the sum of the caller's
\* voting, yes and no balances in every other status; an amount within it is
\* accepted.
WithdrawBoundedByWithdrawable ==
  \A v \in Voters, n \in Amounts, accounts_ok \in BOOLEAN, authority_ok \in BOOLEAN :
    LET withdrawable == IF proposal_state.status = "Voting"
                        THEN voting_acct[v]
                        ELSE voting_acct[v] + yes_acct[v] + no_acct[v]
        result == WithdrawVotingTokensResult(v, n, accounts_ok, authority_ok)
    IN  /\ n > withdrawable =>
             /\ result # Ok
             /\ (accounts_ok /\ authority_ok) => result = "TokenAmountAboveGivenAmount"
        /\ (n <= withdrawable /\ accounts_ok /\ authority_ok) => result = Ok

\* While the vote is open a voter with one undecided token and one yes token
\* asks for two
YesTokenHeldBackWhileVoting ==
  /\ proposal_state.status = "Voting"
  /\ voting_acct[1] = 1
  /\ yes_acct[1] = 1
  /\ WithdrawVotingTokensResult(1, 2, TRUE, TRUE) = "TokenAmountAboveGivenAmount"
  /\ WithdrawVotingTokensResult(1, 1, TRUE, TRUE) = Ok

\* The tokens of a record that are committed to open votes: the whole deposit
\* backs every vote the owner has cast and that is still active
CommittedToOpenVotes(record) ==
  IF record.active_votes_count > 0 THEN record.token_deposit_amount ELSE 0

\* C26: in every reachable state the balance of the realm's holding account
\* of each governing mint equals the sum of token_deposit_amount over the
\* VoterRecords of that mint, and no withdrawal brings a record's
\* token_deposit_amount below the tokens committed to open votes.
HoldingBacksDeposits ==
  /\ [](\A m \in GoverningMints :
          realm_holding[m] = voter_record[m][1].token_deposit_amount
                               + voter_record[m][2].token_deposit_amount)
  /\ [][\A o \in TokenOwners, m \in GoverningMints :
          WithdrawGoverningTokens(o, m, TRUE) =>
            voter_record'[m][o].token_deposit_amount
              >= CommittedToOpenVotes(voter_record[m][o])]_vars

\* C27: an accepted DepositGoverningTokens moves the whole balance a of the
\* source account into the realm's holding account; it creates the VoterRecord
\* of the mint and the owner with token_deposit_amount = a, vote_authority =
\* owner and both vote counts 0 when there is none, and otherwise adds exactly
\* a to token_deposit_amount and changes no other field; a holding account of
\* a mint that is neither the realm's governance mint nor its council mint is
\* rejected with InvalidGoverningTokenMint.
DepositFillsRealmHolding ==
  /\ [](\A o \in TokenOwners, m \in GoverningMints, owner_signed \in BOOLEAN :
          DepositGoverningTokensResult(o, m, "OtherMintAccount", owner_signed)
            = "InvalidGoverningTokenMint")
  /\ [][\A o \in TokenOwners, m \in GoverningMints, h \in HoldingAccounts :
          DepositGoverningTokens(o, m, h, TRUE) =>
            LET a == governing_source[m][o]
            IN  /\ governing_source'[m][o] = 0
                /\ realm_holding'[m] = realm_holding[m] + a
                /\ voter_record'[m][o] =
                     IF ~voter_record[m][o].initialized
                     THEN [initialized |-> TRUE, token_deposit_amount |-> a,
                           vote_authority |-> o, active_votes_count |-> 0,
                           total_votes_count |-> 0]
                     ELSE [voter_record[m][o] EXCEPT !.token_deposit_amount = @ + a]]_vars

\* C28: SetVoteAuthority signed by the governing token owner sets the
\* vote_authority of the owner's VoterRecord to the address passed and nothing
\* else, for records of the governance mint and of the council mint alike;
\* without the owner's signature it returns GoverningTokenOwnerMustSign and
\* is never a step.
VoteAuthoritySetByOwner ==
  /\ [](\A o \in TokenOwners, m \in GoverningMints, a \in VoteAuthorities :
          SetVoteAuthorityResult(o, m, a, FALSE) = "GoverningTokenOwnerMustSign")
  /\ [][\A o \in TokenOwners, m \in GoverningMints, a \in VoteAuthorities :
          /\ ~SetVoteAuthority(o, m, a, FALSE)
          /\ SetVoteAuthority(o, m, a, TRUE) =>
               /\ voter_record[m][o].initialized
               /\ voter_record' =
                    [voter_record EXCEPT ![m][o] =
                       [voter_record[m][o] EXCEPT !.vote_authority = a]]]_vars

\* Owner 1 has passed the governance record to the delegate and owner 2 the
\* council record to owner 1, each record holding a deposit
BothKindsDelegated ==
  /\ voter_record[Realm.governance_mint][1].vote_authority = 3
  /\ voter_record[Realm.governance_mint][1].token_deposit_amount = 1
  /\ voter_record[Realm.council_mint][2].vote_authority = 1
  /\ voter_record[Realm.council_mint][2].token_deposit_amount = 1

\* Every amount a caller can put in a Vote that matters to process_vote: up to
\* one more than all the source tokens there are
AnyVotes == [kind : {"Yes", "No"}, amount : 1..(SourceMintSupply + 1)]

\* C30 (as stated): no Vote call fails with NumericalOverflow, whatever amount
\* the caller passes.
VoteNeverOverflows ==
  \A v \in Voters, vote \in AnyVotes :
    VoteResult(v, vote, TRUE, TRUE, TRUE) # "NumericalOverflow"

\* C30 (amended): a Vote for an amount within the caller's vote-token balance
\* never fails with NumericalOverflow; on a proposal in Voting a Vote for more
\* than the caller holds fails with NumericalOverflow when the yes amount plus
\* the yes supply exceeds the source supply, and with the failed-burn error
\* otherwise (always so for a No vote).
VoteOverflowsOnlyAboveBalance ==
  \A v \in Voters, vote \in AnyVotes :
    LET result == VoteResult(v, vote, TRUE, TRUE, TRUE)
    IN  /\ vote.amount <= voting_acct[v] => result # "NumericalOverflow"
        /\ (proposal_state.status = "Voting" /\ vote.amount > voting_acct[v]) =>
             result = IF YesVoteAmount(vote) + mint_supply.yes > mint_supply.source
                      THEN "NumericalOverflow" ELSE "TokenBurnFailed"
        /\ (proposal_state.status = "Voting" /\ vote.kind = "No"
              /\ vote.amount > voting_acct[v]) => result = "TokenBurnFailed"

\* A yes vote has been cast and the proposal is still open: a voter holding
\* vote tokens gets the arithmetic fault for a yes amount of the whole source
\* supply, the failed burn for one token more than they hold, and is accepted
\* for what they hold
OversizedYesOverflows ==
  \E v \in Voters :
    /\ proposal_state.status = "Voting"
    /\ mint_supply.yes > 0
    /\ voting_acct[v] > 0
    /\ voting_acct[v] + 1 + mint_supply.yes <= mint_supply.source
    /\ VoteResult(v, [kind |-> "Yes", amount |-> mint_supply.source], TRUE, TRUE, TRUE)
         = "NumericalOverflow"
    /\ VoteResult(v, [kind |-> "Yes", amount |-> voting_acct[v] + 1], TRUE, TRUE, TRUE)
         = "TokenBurnFailed"
    /\ VoteResult(v, [kind |-> "Yes", amount |-> voting_acct[v]], TRUE, TRUE, TRUE) = Ok

\* C29: after creation no instruction changes the governance's vote_threshold,
\* hold-up time, voting time or mints, and no lifecycle instruction
\* (AddSignatory, RemoveSignatory, SignProposal, adding, removing or updating
\* a transaction, Vote, Execute, CancelProposal) changes the Proposal record:
\* it stays the record the proposal was created with.
ConfigAndProposalNeverRewritten ==
  /\ [](proposal = CreatedProposal)
  /\ [][governance' = governance /\ proposal' = proposal]_vars

\* The proposal has been through its whole life (signed, a transaction queued,
\* voted yes, executed) and its Proposal record and the governance's mints are
\* those of creation
CompletedWithRecordOfCreation ==
  /\ proposal_state.status = "Completed"
  /\ proposal_state.number_of_executed_transactions > 0
  /\ mint_supply.signatory = 0
  /\ mint_supply.yes > 0
  /\ proposal = CreatedProposal
  /\ governance.governance_mint = Realm.governance_mint
  /\ governance.council_mint = Realm.council_mint

\* C31: RemoveSignatory never underflows: in every reachable state
\* total_signing_tokens_minted is at least the supply of the signatory mint,
\* so wherever a RemoveSignatory can succeed (Draft, admin token proven, a
\* signatory token to burn) total_signing_tokens_minted is at least 1 and the
\* unchecked decrement stays at or above zero.
RemoveSignatoryNeverUnderflows ==
  /\ proposal_state.total_signing_tokens_minted >= mint_supply.signatory
  /\ proposal_state.total_signing_tokens_minted >= 0
  /\ \A a \in Parties, s \in Parties :
       RemoveSignatoryResult(a, s, TRUE, TRUE) = Ok =>
         /\ proposal_state.total_signing_tokens_minted >= 1
         /\ proposal_state.total_signing_tokens_minted - 1 >= 0

\* The first signatory has been removed after a second one was added: one
\* token is counted and the admin can remove that last one
LastSignatoryRemovable ==
  /\ proposal_state.status = "Draft"
  /\ proposal_state.total_signing_tokens_minted = 1
  /\ signatory_acct[1] = 0
  /\ signatory_acct[2] = 1
  /\ RemoveSignatoryResult(1, 2, TRUE, TRUE) = Ok

\* a <= b on limb sequences
BigLeq(a, b) == ~BigLess(b, a)

\* The borrowed amount is a whole number of tokens within u64
WholeU64Tokens(amount) ==
  /\ BigLeq(amount, DecimalFrom(U64Max))
  /\ \A i \in 1..WadLimbs : BigLimb(amount, i) = 0

\* 0 < current <= new <= 100 * current
RatesWithinHundredfold(current, new) ==
  /\ current # <<>>
  /\ BigLeq(current, new)
  /\ BigLeq(new, BigMulLimb(current, 100))

\* C32: accrue_interest fails with NegativeInterestRate for a rate
\* below the stored one and with MathOverflow for a stored rate of zero;
\* otherwise, for every whole borrowed amount within u64 and rates with
\* 0 < current <= new <= 100 * current, it succeeds with a borrowed amount
\* strictly greater than before when new > current and equal when new = current.
AccrueStrictlyGrows ==
  \A rate \in NewRates :
    LET out == ObligationAccrueInterest(obligation, rate)
        current == obligation.cumulative_borrow_rate_wads
        borrowed == obligation.borrowed_liquidity_wads
    IN  /\ BigLess(rate, current) => out.result = "NegativeInterestRate"
        /\ (~BigLess(rate, current) /\ current = <<>>) => out.result = MathOverflow
        /\ (WholeU64Tokens(borrowed) /\ RatesWithinHundredfold(current, rate)) =>
             /\ out.result = Ok
             /\ BigLess(current, rate) =>
                  BigLess(borrowed, out.obligation.borrowed_liquidity_wads)
             /\ rate = current => out.obligation.borrowed_liquidity_wads = borrowed

\* C40: liquidate is all-or-nothing: when it returns an error (repay_amount
\* above the borrowed amount, or withdraw_amount above the collateral) the
\* borrowed amount and the collateral keep their values; on success each is
\* reduced by exactly the amount given.
LiquidateAllOrNothing ==
  \A repay_amount \in RepayAmounts, withdraw_amount \in WithdrawAmounts :
    LET out == ObligationLiquidate(obligation, repay_amount, withdraw_amount)
    IN  /\ out.result # Ok =>
             /\ out.obligation.borrowed_liquidity_wads = obligation.borrowed_liquidity_wads
             /\ out.obligation.deposited_collateral_tokens
                  = obligation.deposited_collateral_tokens
        /\ out.result = Ok =>
             /\ BigAdd(out.obligation.borrowed_liquidity_wads, repay_amount)
                  = obligation.borrowed_liquidity_wads
             /\ out.obligation.deposited_collateral_tokens + withdraw_amount
                  = obligation.deposited_collateral_tokens

\* C33: in every reachable state every transaction queued in the proposal has
\* delay_slots of at least the governance's minimum hold-up time, also after
\* UpdateTransactionDelaySlots has rewritten it; hence no Execute happens
\* earlier than that many slots after voting_ended_at.
QueuedDelayAtLeastHoldUp ==
  /\ [](\A k \in QueuedTransactions(proposal_state) :
          transaction_accts[k].delay_slots >= governance.minimum_slot_waiting_period)
  /\ [][\A k \in TxnAccounts :
          Execute(k, TRUE) =>
            slot >= proposal_state.voting_ended_at + governance.minimum_slot_waiting_period]_vars

\* C34: in every reachable state number_of_transactions equals the number of
\* non-empty entries of the proposal's transactions array and is at most
\* MAX_TRANSACTIONS, also after an AddCustomSingleSignerTransaction at an
\* occupied position and after RemoveTransaction.
NumberOfTransactionsCountsEntries ==
  /\ proposal_state.number_of_transactions
       = Cardinality({n \in 0..(MAX_TRANSACTIONS - 1) :
                        proposal_state.transactions[n] # ZeroKey})
  /\ proposal_state.number_of_transactions <= MAX_TRANSACTIONS

\* C35: after a successful AddCustomSingleSignerTransaction, in the governance
\* variant as in the timelock variant, the instruction payload of the record
\* created equals the instruction bytes supplied in the call, and it stays
\* equal to them in every later state.
PayloadStoredAsSupplied ==
  /\ [](\A d \in Delays, instruction \in Instructions, e \in EndIndexes :
          UnpackTransaction(PackTransaction(
            TimelockTransactionWritten(EmptyTransaction, d, instruction, e))).instruction
            = instruction)
  /\ [][\A s \in Parties, k \in TxnAccounts, d \in Delays, instruction \in Instructions :
          \A p \in Positions, e \in EndIndexes :
            AddTransactionWithInstruction(s, k, d, instruction, p, e, TRUE, TRUE) =>
              transaction_accts'[k].instruction = instruction]_vars
  /\ [][\A k \in TxnAccounts :
          transaction_accts[k].initialized =>
            transaction_accts'[k].instruction = transaction_accts[k].instruction]_vars

\* C36, as the specification states it: a Vote carrying a No amount never
\* moves a proposal from Voting to Executing, for any vote_threshold and any
\* supplies.
NoVoteNeverTips ==
  [][\A v \in Voters, vote \in Votes :
       (vote.kind = "No" /\ VoteStep(v, vote)) =>
         proposal_state'.status # "Executing"]_vars

\* C36, as the program behaves: with a vote_threshold of at least 1 a Vote
\* carrying a No amount leaves the status Voting or, past the deadline, sets
\* it to Defeated; with a vote_threshold of 0 the cast share, which is never
\* negative, always reaches the threshold, and every successful Vote, a No
\* vote included, moves the proposal to Executing.
NoVoteTipsOnlyAtZeroThreshold ==
  [][\A v \in Voters, vote \in Votes :
       (vote.kind = "No" /\ VoteStep(v, vote)) =>
         proposal_state'.status =
           IF governance.vote_threshold = 0 THEN "Executing"
           ELSE IF TooLong(slot - proposal_state.voting_began_at, governance.time_limit)
                THEN "Defeated" ELSE "Voting"]_vars

\* Defeated past the deadline at threshold 60 with no votes only
DefeatedWithNoVotesOnly ==
  /\ proposal_state.status = "Defeated"
  /\ governance.vote_threshold = 60
  /\ mint_supply.no > 0
  /\ mint_supply.yes = 0

\* C37: while a proposal is in Draft its signatory mint supply is at least 1
\* (RemoveSignatory cannot burn the last outstanding signatory token), so in
\* every reachable Draft state some signatory can still call SignProposal.
DraftKeepsSignatory ==
  proposal_state.status = "Draft" =>
    /\ mint_supply.signatory >= 1
    /\ \E s \in Parties : SignProposalResult(s, TRUE) = Ok

HeldByVoters ==
  SumCounts(Voters, voting_acct) + SumCounts(Voters, yes_acct) + SumCounts(Voters, no_acct)

\* C39: a successful WithdrawVotingTokens of amount a removes exactly a tokens
\* in total from the caller's vote, yes and no accounts, vote tokens first
\* (burned), then yes tokens, then no tokens (moved to the dump accounts), and
\* transfers exactly a source tokens from the holding account to the caller;
\* in every reachable state the holding balance equals the total of vote, yes
\* and no tokens held by voters.
WithdrawTakesExactAmount ==
  /\ [](holding = HeldByVoters)
  /\ [][\A v \in Voters, a \in Amounts :
          WithdrawVotingTokens(v, a, TRUE, TRUE) =>
            LET burned == voting_acct[v] - voting_acct'[v]
                yes_moved == yes_acct[v] - yes_acct'[v]
                no_moved == no_acct[v] - no_acct'[v]
            IN  /\ burned + yes_moved + no_moved = a
                /\ burned = Min(voting_acct[v], a)
                /\ yes_moved = Min(yes_acct[v], a - burned)
                /\ no_moved >= 0
                /\ mint_supply'.voting = mint_supply.voting - burned
                /\ dump'.yes = dump.yes + yes_moved
                /\ dump'.no = dump.no + no_moved
                /\ holding' = holding - a
                /\ source_acct'[v] = source_acct[v] + a
                /\ \A w \in Voters \ {v} :
                     /\ voting_acct'[w] = voting_acct[w]
                     /\ yes_acct'[w] = yes_acct[w]
                     /\ no_acct'[w] = no_acct[w]
                     /\ source_acct'[w] = source_acct[w]]_vars

\* Yes and no tokens have been withdrawn to the dump accounts and what is
\* left in escrow is still held as tokens by voters
WithdrawnFromYesAndNo ==
  /\ dump.yes >= 1
  /\ dump.no >= 1
  /\ holding >= 1
  /\ proposal_state.status # "Voting"

====
